---- MODULE Spec2Model ----
(***************************************************************************)
(* A model of jkmem's tiered query cache (src/src/jkmem/cache.py), of the   *)
(* cached memory backend (src/src/jkmem/memory_backends.py) and of the      *)
(* clinical record graph store (src/src/jkmem/graph_store.py).              *)
(*                                                                         *)
(* Python's None is modelled by None (-1) where the other values are        *)
(* numbers (times, cached values) and by NoId ("None") where they are       *)
(* strings (identifiers, names).                                            *)
(***************************************************************************)
EXTENDS Integers, Sequences, FiniteSets, Bags, TLC

VARIABLES
    l1,        \* the LruCache object: capacity, ttl_seconds, data (the OrderedDict)
    l2,        \* the SqliteCache object: enabled, ttl_seconds, rows (table cache_entries)
    now,       \* the clock read by time.monotonic() and time.time()
    recency,   \* history: the keys in the order of their last use through LruCache's own get and set (oldest first)
    last,      \* history: the last call, its arguments and what it returned
    store,     \* the underlying mem0 store: how many writes it holds
    pc,        \* per thread: where it stands in Mem0Backend.search / add
    loc,       \* per thread: the locals of the running call
    done,      \* history: the store version of the latest add that has returned
    graph,     \* the record graph: node tables and relationship tables
    nops       \* how many graph operations ran

vars == <<l1, l2, now, recency, last, store, pc, loc, done, graph, nops>>

None == -1
NoId == "None"

-----------------------------------------------------------------------------
(* Bounds of the model. *)

MaxCapacity == 2
MaxTime == 2
MaxAdds == 1
MaxOps == 4
MaxTtl == 2
MaxEntries == 2
MaxClock == 5

-----------------------------------------------------------------------------
(* Strings are ordered as Python and Cypher order them: by code point,      *)
(* position by position, a proper prefix first.                             *)

Code(s) ==
    CASE s = "" -> <<>>
      [] s = "m1" -> <<109, 49>>
      [] s = "m10" -> <<109, 49, 48>>
      [] s = "m2" -> <<109, 50>>
      [] s = "q1" -> <<113, 49>>
      [] s = "q2" -> <<113, 50>>
      [] s = "q3" -> <<113, 51>>
      [] s = "patient_id" -> <<112, 97>>
      [] s = "encounter_id" -> <<101, 110>>
      [] s = "agent_id" -> <<97, 103>>
      [] s = "run_id" -> <<114, 117>>
      [] OTHER -> <<0>>

RECURSIVE SeqLess(_, _)
SeqLess(a, b) ==
    IF b = <<>> THEN FALSE
    ELSE IF a = <<>> THEN TRUE
    ELSE IF Head(a) /= Head(b) THEN Head(a) < Head(b)
    ELSE SeqLess(Tail(a), Tail(b))

StrLess(a, b) == SeqLess(Code(a), Code(b))

Max(a, b) == IF a >= b THEN a ELSE b

-----------------------------------------------------------------------------
(* LruCache: an OrderedDict key -> (expires_at, value), oldest entry first. *)

IndexOf(data, key) ==
    IF \E i \in 1..Len(data) : data[i].key = key
    THEN CHOOSE i \in 1..Len(data) : data[i].key = key
    ELSE 0

RemoveAt(data, i) == SubSeq(data, 1, i - 1) \o SubSeq(data, i + 1, Len(data))

MoveToEnd(data, key) ==
    LET i == IndexOf(data, key)
    IN  IF i = 0 THEN data ELSE Append(RemoveAt(data, i), data[i])

LruInit(capacity, ttl_seconds) ==
    [capacity |-> Max(1, capacity), ttl_seconds |-> Max(0, ttl_seconds), data |-> <<>>]

\* A get that refuses an expired entry and leaves it in the map.
LruGetKeepExpired(c, key, t) ==
    LET i == IndexOf(c.data, key)
    IN  IF i = 0 THEN [data |-> c.data, ret |-> None]
        ELSE IF c.data[i].expires_at /= None /\ c.data[i].expires_at <= t
        THEN [data |-> c.data, ret |-> None]
        ELSE [data |-> MoveToEnd(c.data, key), ret |-> c.data[i].value]

\* A get that takes an entry as expired only after its expiry instant.
LruGetLateExpiry(c, key, t) ==
    LET i == IndexOf(c.data, key)
    IN  IF i = 0 THEN [data |-> c.data, ret |-> None]
        ELSE IF c.data[i].expires_at /= None /\ c.data[i].expires_at < t
        THEN [data |-> RemoveAt(c.data, i), ret |-> None]
        ELSE [data |-> MoveToEnd(c.data, key), ret |-> c.data[i].value]

\* LruCache.get: the new OrderedDict and the returned value.
LruGet(c, key, t) ==
    LET i == IndexOf(c.data, key)
    IN  IF i = 0 THEN [data |-> c.data, ret |-> None]
        ELSE IF c.data[i].expires_at /= None /\ c.data[i].expires_at <= t
        THEN [data |-> RemoveAt(c.data, i), ret |-> None]
        ELSE [data |-> MoveToEnd(c.data, key), ret |-> c.data[i].value]

\* A set that gives every entry an expiry instant, also under a TTL of zero.
LruSetAlwaysExpires(c, key, value, t) ==
    LET item == [key |-> key, expires_at |-> t + c.ttl_seconds, value |-> value]
        i == IndexOf(c.data, key)
        assigned == IF i = 0 THEN Append(c.data, item) ELSE [c.data EXCEPT ![i] = item]
        moved == MoveToEnd(assigned, key)
    IN  IF Len(moved) > c.capacity THEN Tail(moved) ELSE moved

\* A set that never evicts.
LruSetNoEvict(c, key, value, t) ==
    LET item == [key |-> key,
                 expires_at |-> IF c.ttl_seconds > 0 THEN t + c.ttl_seconds ELSE None,
                 value |-> value]
        i == IndexOf(c.data, key)
        assigned == IF i = 0 THEN Append(c.data, item) ELSE [c.data EXCEPT ![i] = item]
    IN  MoveToEnd(assigned, key)

\* A set that forgets to move a refreshed key to the end.
LruSetNoMove(c, key, value, t) ==
    LET item == [key |-> key,
                 expires_at |-> IF c.ttl_seconds > 0 THEN t + c.ttl_seconds ELSE None,
                 value |-> value]
        i == IndexOf(c.data, key)
        assigned == IF i = 0 THEN Append(c.data, item) ELSE [c.data EXCEPT ![i] = item]
    IN  IF Len(assigned) > c.capacity THEN Tail(assigned) ELSE assigned

\* LruCache.set: the new OrderedDict.
LruSet(c, key, value, t) ==
    LET item == [key |-> key,
                 expires_at |-> IF c.ttl_seconds > 0 THEN t + c.ttl_seconds ELSE None,
                 value |-> value]
        i == IndexOf(c.data, key)
        assigned == IF i = 0 THEN Append(c.data, item) ELSE [c.data EXCEPT ![i] = item]
        moved == MoveToEnd(assigned, key)
    IN  IF Len(moved) > c.capacity THEN Tail(moved) ELSE moved

\* LruCache.clear
LruClear(c) == <<>>

-----------------------------------------------------------------------------
(* SqliteCache: table cache_entries, cache_key its primary key.             *)

\* Python values a caller can hand to set besides a search result (a number
\* n >= 0: the result the store computes after n writes): the tuple (1,), the
\* list [1], a datetime, and the str of that datetime.
PyTuple == -2
PyList == -3
PyDatetime == -4
PyStr == -5

\* json.dumps(value, default=str): the text, as its JSON form and, for a
\* search result, the result it spells.
JsonDumps(value) ==
    CASE value = None -> <<"null", 0>>
      [] value = PyTuple -> <<"[1]", 0>>
      [] value = PyList -> <<"[1]", 0>>
      [] value = PyDatetime -> <<"\"2024-01-01 00:00:00\"", 0>>
      [] value = PyStr -> <<"\"2024-01-01 00:00:00\"", 0>>
      [] OTHER -> <<"{\"results\": ...}", value>>

\* json.loads(value_json), None on a JSONDecodeError.
JsonLoads(text) ==
    CASE text[1] = "null" -> None
      [] text[1] = "[1]" -> PyList
      [] text[1] = "\"2024-01-01 00:00:00\"" -> PyStr
      [] text[1] = "{\"results\": ...}" -> text[2]
      [] OTHER -> None

SqliteInit(enabled, ttl_seconds) ==
    [enabled |-> enabled, ttl_seconds |-> Max(0, ttl_seconds), rows |-> {}]

RowsOf(rows, key) == {r \in rows : r.cache_key = key}

\* A get that decides expiry by the TTL of the cache object, not of the row.
SqliteGetGlobalTtl(c, key, t) ==
    IF RowsOf(c.rows, key) = {} THEN [rows |-> c.rows, ret |-> None]
    ELSE LET row == CHOOSE r \in RowsOf(c.rows, key) : TRUE
         IN  IF c.ttl_seconds > 0 /\ row.updated_at + c.ttl_seconds <= t
             THEN [rows |-> c.rows \ RowsOf(c.rows, key), ret |-> None]
             ELSE [rows |-> c.rows, ret |-> JsonLoads(row.cache_value)]

\* SqliteCache.get: the new table and the returned value.
SqliteGet(c, key, t) ==
    IF RowsOf(c.rows, key) = {} THEN [rows |-> c.rows, ret |-> None]
    ELSE LET row == CHOOSE r \in RowsOf(c.rows, key) : TRUE
         IN  IF row.ttl_seconds > 0 /\ row.updated_at + row.ttl_seconds <= t
             THEN [rows |-> c.rows \ RowsOf(c.rows, key), ret |-> None]
             ELSE [rows |-> c.rows, ret |-> JsonLoads(row.cache_value)]

\* A set that keeps the row a key already has (INSERT OR IGNORE).
SqliteSetInsertOrIgnore(c, key, value, t) ==
    LET row == [cache_key |-> key, cache_value |-> JsonDumps(value),
                updated_at |-> t, ttl_seconds |-> c.ttl_seconds]
    IN  IF RowsOf(c.rows, key) = {} THEN c.rows \cup {row} ELSE c.rows

\* SqliteCache.set: INSERT ... ON CONFLICT(cache_key) DO UPDATE.
SqliteSet(c, key, value, t) ==
    LET row == [cache_key |-> key, cache_value |-> JsonDumps(value),
                updated_at |-> t, ttl_seconds |-> c.ttl_seconds]
    IN  (c.rows \ RowsOf(c.rows, key)) \cup {row}

\* What if clear deleted no row.
SqliteClearNothing(c) == c.rows

\* SqliteCache.clear: DELETE FROM cache_entries
SqliteClear(c) == {}

-----------------------------------------------------------------------------
(* MultiLevelCache over <<l1, l2>>: each operator gives the two layers'     *)
(* new contents and, for get, the returned value.                           *)

\* A composite get that returns an L2 hit without promoting it.
MultiLevelGetNoPromote(c1, c2, key, t) ==
    LET g1 == LruGet(c1, key, t)
    IN  IF g1.ret /= None THEN [data |-> g1.data, rows |-> c2.rows, ret |-> g1.ret]
        ELSE IF ~c2.enabled THEN [data |-> g1.data, rows |-> c2.rows, ret |-> None]
        ELSE LET g2 == SqliteGet(c2, key, t)
             IN  [data |-> g1.data, rows |-> g2.rows, ret |-> g2.ret]

\* What if: a promoted entry lived only as long as the L2 row it came from.
MultiLevelGetKeepLifetime(c1, c2, key, t) ==
    LET g1 == LruGet(c1, key, t)
    IN  IF g1.ret /= None THEN [data |-> g1.data, rows |-> c2.rows, ret |-> g1.ret]
        ELSE IF ~c2.enabled THEN [data |-> g1.data, rows |-> c2.rows, ret |-> None]
        ELSE LET g2 == SqliteGet(c2, key, t)
                 row == CHOOSE r \in RowsOf(c2.rows, key) : TRUE
             IN  IF g2.ret /= None
                 THEN [data |-> LruSet([c1 EXCEPT !.data = g1.data,
                                                  !.ttl_seconds = row.ttl_seconds],
                                       key, g2.ret, row.updated_at),
                       rows |-> g2.rows, ret |-> g2.ret]
                 ELSE [data |-> g1.data, rows |-> g2.rows, ret |-> None]

\* MultiLevelCache.get
MultiLevelGet(c1, c2, key, t) ==
    LET g1 == LruGet(c1, key, t)
    IN  IF g1.ret /= None THEN [data |-> g1.data, rows |-> c2.rows, ret |-> g1.ret]
        ELSE IF ~c2.enabled THEN [data |-> g1.data, rows |-> c2.rows, ret |-> None]
        ELSE LET g2 == SqliteGet(c2, key, t)
             IN  IF g2.ret /= None
                 THEN [data |-> LruSet([c1 EXCEPT !.data = g1.data], key, g2.ret, t),
                       rows |-> g2.rows, ret |-> g2.ret]
                 ELSE [data |-> g1.data, rows |-> g2.rows, ret |-> None]

\* A composite set that writes the durable layer only for a key it lacks.
MultiLevelSetIfAbsent(c1, c2, key, value, t) ==
    [data |-> LruSet(c1, key, value, t),
     rows |-> IF c2.enabled /\ RowsOf(c2.rows, key) = {}
              THEN SqliteSet(c2, key, value, t) ELSE c2.rows]

\* MultiLevelCache.set
MultiLevelSet(c1, c2, key, value, t) ==
    [data |-> LruSet(c1, key, value, t),
     rows |-> IF c2.enabled THEN SqliteSet(c2, key, value, t) ELSE c2.rows]

\* A composite clear that empties the fast layer only.
MultiLevelClearL1Only(c1, c2) ==
    [data |-> LruClear(c1), rows |-> c2.rows]

\* MultiLevelCache.clear
MultiLevelClear(c1, c2) ==
    [data |-> LruClear(c1),
     rows |-> IF c2.enabled THEN SqliteClear(c2) ELSE c2.rows]

-----------------------------------------------------------------------------
(* The cache key: sha256 over json.dumps(payload, sort_keys=True). The      *)
(* canonical text is modelled by the payload's values in the order of the  *)
(* sorted member names (extra, filters, limit, query, threshold, user_id), *)
(* each map as its pairs sorted by name; the hash is taken as injective.    *)

NoFilters == <<<<NoId, NoId>>>>

\* What if the text kept the insertion order of a map.
KeepOrder(pairs) == pairs

RECURSIVE SortPairs(_)
SortPairs(pairs) ==
    IF pairs = <<>> THEN <<>>
    ELSE LET least == CHOOSE i \in 1..Len(pairs) :
                          \A j \in 1..Len(pairs) : ~StrLess(pairs[j][1], pairs[i][1])
         IN  <<pairs[least]>> \o SortPairs(RemoveAt(pairs, least))

BuildCacheKey(query, user_id, limit, filters, threshold, extra) ==
    <<SortPairs(extra),
      SortPairs(IF filters = NoFilters THEN <<>> ELSE filters),
      limit, query, threshold, user_id>>

Queries == {"q1", "q2", "q3"}
DefaultLimit == 3
KeyOf(query) == BuildCacheKey(query, "u1", DefaultLimit, NoFilters, None, <<>>)
Keys == {KeyOf(q) : q \in Queries}
NoKey == BuildCacheKey("", "", 0, NoFilters, None, <<>>)

-----------------------------------------------------------------------------
(* Mem0Backend over the mem0 store and the cache. The store (the mem0       *)
(* library) is outside the repository: it is the number of writes it holds, *)
(* and a search returns what the store computes from that content.          *)

MemorySearch(st, query) == st

\* Mem0Backend.add: the store's write, then the cache's clear.
Mem0BackendAdd(c1, c2, st) ==
    LET cleared == MultiLevelClear(c1, c2)
    IN  [store |-> st + 1, data |-> cleared.data, rows |-> cleared.rows]

\* What if: a miss returned the store's result without putting it in the cache.
Mem0BackendSearchNoStore(c1, c2, st, query, t) ==
    LET cache_key == KeyOf(query)
        g == MultiLevelGet(c1, c2, cache_key, t)
    IN  IF g.ret /= None
        THEN [data |-> g.data, rows |-> g.rows, ret |-> g.ret, src |-> "cache"]
        ELSE [data |-> g.data, rows |-> g.rows, ret |-> MemorySearch(st, query),
              src |-> "store"]

\* Mem0Backend.search: the cached result, or the store's result put in the cache.
Mem0BackendSearch(c1, c2, st, query, t) ==
    LET cache_key == KeyOf(query)
        g == MultiLevelGet(c1, c2, cache_key, t)
    IN  IF g.ret /= None
        THEN [data |-> g.data, rows |-> g.rows, ret |-> g.ret, src |-> "cache"]
        ELSE LET result == MemorySearch(st, query)
                 s == MultiLevelSet([c1 EXCEPT !.data = g.data],
                                    [c2 EXCEPT !.rows = g.rows], cache_key, result, t)
             IN  [data |-> s.data, rows |-> s.rows, ret |-> result, src |-> "store"]

-----------------------------------------------------------------------------
(* History. *)

Values == 0..MaxAdds
Touch(rec, key) ==
    LET i == CHOOSE j \in 0..Len(rec) : (j = 0 /\ \A m \in 1..Len(rec) : rec[m] /= key)
                                          \/ (j > 0 /\ rec[j] = key)
    IN  Append(IF i = 0 THEN rec ELSE RemoveAt(rec, i), key)

\* dirty: a clearing call found an entry in the cache.
Call(op, key, value, ret, src) ==
    [op |-> op, key |-> key, value |-> value, ret |-> ret, src |-> src,
     dirty |-> op \in {"add", "clear"} /\ (l1.data /= <<>> \/ l2.rows /= {})]

Threads == {"t1", "t2"}
NoLocals == [query |-> "", result |-> None, src |-> "", began |-> 0, wrote |-> 0]

IdleRest ==
    /\ pc = [t \in Threads |-> "idle"]
    /\ loc = [t \in Threads |-> NoLocals]
    /\ done = 0

\* The tables _init_schema creates, each the bag of its nodes or relationships.
EmptyGraph ==
    [Patient |-> EmptyBag, Encounter |-> EmptyBag, Observation |-> EmptyBag,
     Medication |-> EmptyBag, Document |-> EmptyBag, HAS_ENCOUNTER |-> EmptyBag,
     HAS_OBSERVATION |-> EmptyBag, HAS_MEDICATION |-> EmptyBag,
     HAS_DOCUMENT |-> EmptyBag, HAS_DOCUMENT_DIRECT |-> EmptyBag,
     TAKES_MEDICATION |-> EmptyBag]

-----------------------------------------------------------------------------
(* The cache objects on their own: LruCache, SqliteCache, MultiLevelCache.  *)

\* The TTL settings: below zero (taken as zero), zero (no expiry) and one.
TtlChoices == {-1, 0, 1}

Rest ==
    /\ now = 0
    /\ recency = <<>>
    /\ last = [op |-> "init", key |-> NoKey, value |-> None, ret |-> None,
               src |-> "", dirty |-> FALSE]
    /\ store = 0
    /\ IdleRest

NoGraph ==
    /\ graph = EmptyGraph
    /\ nops = 0

\* MultiLevelCache(l1, l2) as _build_cache makes it from the settings.
CacheInit ==
    /\ \E capacity \in 0..MaxCapacity, ttl \in TtlChoices :
           l1 = LruInit(capacity, ttl)
    /\ \E enabled \in BOOLEAN, ttl \in TtlChoices :
           l2 = SqliteInit(enabled, ttl)
    /\ Rest
    /\ NoGraph

\* An LruCache on its own.
L1Init ==
    /\ \E capacity \in 0..MaxCapacity, ttl \in TtlChoices :
           l1 = LruInit(capacity, ttl)
    /\ l2 = SqliteInit(FALSE, 0)
    /\ Rest
    /\ NoGraph

\* A SqliteCache on its own.
L2Init ==
    /\ l1 = LruInit(1, 0)
    /\ \E ttl \in TtlChoices : l2 = SqliteInit(TRUE, ttl)
    /\ Rest
    /\ NoGraph

Tick ==
    /\ now < MaxTime
    /\ now' = now + 1
    /\ last' = Call("tick", NoKey, None, None, "")
    /\ UNCHANGED <<l1, l2, recency, store, pc, loc, done, graph, nops>>

L1Get(key) ==
    LET g == LruGet(l1, key, now)
    IN  /\ l1' = [l1 EXCEPT !.data = g.data]
        /\ recency' = IF g.ret /= None THEN Touch(recency, key) ELSE recency
        /\ last' = Call("l1get", key, None, g.ret,
                        IF IndexOf(l1.data, key) = 0 THEN "absent"
                        ELSE IF g.ret = None THEN "expired" ELSE "hit")
        /\ UNCHANGED <<l2, now, store, pc, loc, done, graph, nops>>

L1Set(key, value) ==
    /\ l1' = [l1 EXCEPT !.data = LruSet(l1, key, value, now)]
    /\ recency' = Touch(recency, key)
    /\ last' = Call("l1set", key, value, None,
                    IF IndexOf(l1.data, key) = 0 /\ Len(l1.data) = l1.capacity
                    THEN "full" ELSE "l1")
    /\ UNCHANGED <<l2, now, store, pc, loc, done, graph, nops>>

L1Clear ==
    /\ l1' = [l1 EXCEPT !.data = LruClear(l1)]
    /\ last' = Call("l1clear", NoKey, None, None, "l1")
    /\ UNCHANGED <<l2, now, recency, store, pc, loc, done, graph, nops>>

L2Get(key) ==
    LET g == SqliteGet(l2, key, now)
    IN  /\ l2.enabled
        /\ l2' = [l2 EXCEPT !.rows = g.rows]
        /\ last' = Call("l2get", key, None, g.ret,
                        IF RowsOf(l2.rows, key) = {} THEN "absent"
                        ELSE IF g.rows /= l2.rows THEN "expired" ELSE "hit")
        /\ UNCHANGED <<l1, now, recency, store, pc, loc, done, graph, nops>>

L2Set(key, value) ==
    /\ l2.enabled
    /\ l2' = [l2 EXCEPT !.rows = SqliteSet(l2, key, value, now)]
    /\ last' = Call("l2set", key, value, None,
                    IF RowsOf(l2.rows, key) = {} THEN "insert" ELSE "update")
    /\ UNCHANGED <<l1, now, recency, store, pc, loc, done, graph, nops>>

\* A new SqliteCache on the same path: CREATE TABLE IF NOT EXISTS keeps the
\* rows, and the new object has the TTL it is given.
L2Reopen(ttl_seconds) ==
    /\ l2.enabled
    /\ l2' = [SqliteInit(TRUE, ttl_seconds) EXCEPT !.rows = l2.rows]
    /\ last' = Call("l2open", NoKey, None, None, "l2")
    /\ UNCHANGED <<l1, now, recency, store, pc, loc, done, graph, nops>>

L2Clear ==
    /\ l2.enabled
    /\ l2' = [l2 EXCEPT !.rows = SqliteClear(l2)]
    /\ last' = Call("l2clear", NoKey, None, None, "l2")
    /\ UNCHANGED <<l1, now, recency, store, pc, loc, done, graph, nops>>

CacheGet(key) ==
    LET g == MultiLevelGet(l1, l2, key, now)
        src == IF LruGet(l1, key, now).ret /= None THEN "l1"
               ELSE IF g.ret /= None THEN "l2" ELSE "miss"
    IN  /\ l1' = [l1 EXCEPT !.data = g.data]
        /\ l2' = [l2 EXCEPT !.rows = g.rows]
        /\ last' = Call("get", key, None, g.ret, src)
        /\ UNCHANGED <<now, recency, store, pc, loc, done, graph, nops>>

CacheSet(key, value) ==
    LET s == MultiLevelSet(l1, l2, key, value, now)
    IN  /\ l1' = [l1 EXCEPT !.data = s.data]
        /\ l2' = [l2 EXCEPT !.rows = s.rows]
        /\ last' = Call("set", key, value, None,
                        IF IndexOf(l1.data, key) = 0 /\ RowsOf(l2.rows, key) = {}
                        THEN "new" ELSE "held")
        /\ UNCHANGED <<now, recency, store, pc, loc, done, graph, nops>>

CacheClear ==
    LET c == MultiLevelClear(l1, l2)
    IN  /\ l1' = [l1 EXCEPT !.data = c.data]
        /\ l2' = [l2 EXCEPT !.rows = c.rows]
        /\ last' = Call("clear", NoKey, None, None, "both")
        /\ UNCHANGED <<now, recency, store, pc, loc, done, graph, nops>>

L1Next ==
    \/ Tick
    \/ \E key \in Keys : L1Get(key)
    \/ \E key \in Keys, value \in Values : L1Set(key, value)
    \/ L1Clear

SpecL1 == L1Init /\ [][L1Next]_vars

L2Next ==
    \/ Tick
    \/ \E key \in Keys : L2Get(key)
    \/ \E key \in Keys, value \in Values : L2Set(key, value)
    \/ L2Clear
    \/ \E ttl \in TtlChoices : L2Reopen(ttl)

SpecL2 == L2Init /\ [][L2Next]_vars

CacheNext ==
    \/ Tick
    \/ \E key \in Keys : CacheGet(key)
    \/ \E key \in Keys, value \in Values : CacheSet(key, value)
    \/ CacheClear
    \/ L1Clear

SpecCache == CacheInit /\ [][CacheNext]_vars

-----------------------------------------------------------------------------
(* The two layers over a restart of the process: a new LruCache, and a new *)
(* SqliteCache on the path of the old one.                                  *)

PyValues == Values \cup {PyTuple, PyList, PyDatetime, PyStr}
RestartKeys == {KeyOf("q1"), KeyOf("q2")}

RestartInit ==
    /\ l1 = LruInit(1, 0)
    /\ \E ttl \in TtlChoices : l2 = SqliteInit(TRUE, ttl)
    /\ Rest
    /\ NoGraph

\* A restart that makes the table anew.
RestartLosesRows ==
    /\ l1' = LruInit(l1.capacity, l1.ttl_seconds)
    /\ l2' = SqliteInit(TRUE, l2.ttl_seconds)
    /\ recency' = <<>>
    /\ last' = Call("restart", NoKey, None, None,
                    IF l1.data /= <<>> THEN "warm" ELSE "cold")
    /\ UNCHANGED <<now, store, pc, loc, done, graph, nops>>

\* The process ends and starts again with the same settings.
Restart ==
    /\ l1' = LruInit(l1.capacity, l1.ttl_seconds)
    /\ l2' = [SqliteInit(TRUE, l2.ttl_seconds) EXCEPT !.rows = l2.rows]
    /\ recency' = <<>>
    /\ last' = Call("restart", NoKey, None, None,
                    IF l1.data /= <<>> THEN "warm" ELSE "cold")
    /\ UNCHANGED <<now, store, pc, loc, done, graph, nops>>

RestartNext ==
    \/ Tick
    \/ \E key \in RestartKeys, value \in Values : L1Set(key, value)
    \/ \E key \in RestartKeys, value \in PyValues : L2Set(key, value)
    \/ \E key \in RestartKeys : L2Get(key)
    \/ Restart

SpecRestart == RestartInit /\ [][RestartNext]_vars

-----------------------------------------------------------------------------
(* Mem0Backend, one call at a time.                                         *)

Mem0Add ==
    LET a == Mem0BackendAdd(l1, l2, store)
    IN  /\ store < MaxAdds
        /\ store' = a.store
        /\ l1' = [l1 EXCEPT !.data = a.data]
        /\ l2' = [l2 EXCEPT !.rows = a.rows]
        /\ last' = Call("add", NoKey, None, None, "store")
        /\ UNCHANGED <<now, recency, pc, loc, done, graph, nops>>

Mem0Search(query) ==
    LET s == Mem0BackendSearch(l1, l2, store, query, now)
    IN  /\ l1' = [l1 EXCEPT !.data = s.data]
        /\ l2' = [l2 EXCEPT !.rows = s.rows]
        /\ last' = Call("search", KeyOf(query), None, s.ret, s.src)
        /\ UNCHANGED <<now, recency, store, pc, loc, done, graph, nops>>

Mem0Next ==
    \/ Tick
    \/ Mem0Add
    \/ \E query \in Queries : Mem0Search(query)

SpecMem0 == CacheInit /\ [][Mem0Next]_vars

-----------------------------------------------------------------------------
(* Mem0Backend called by several threads: each step is one lock-protected   *)
(* call on a cache layer, or one call of the store.                         *)

Returned(t, result, src) ==
    /\ pc' = [pc EXCEPT ![t] = "idle"]
    /\ loc' = [loc EXCEPT ![t].result = result, ![t].src = src]

\* search is called: began is the latest write known to have completed.
SearchCall(t, query) ==
    /\ pc[t] = "idle"
    /\ pc' = [pc EXCEPT ![t] = "l1get"]
    /\ loc' = [loc EXCEPT ![t] = [NoLocals EXCEPT !.query = query, !.began = done]]
    /\ UNCHANGED <<l1, l2, now, recency, last, store, done, graph, nops>>

\* MultiLevelCache.get: self._l1.get(key)
SearchL1Get(t) ==
    LET g == LruGet(l1, KeyOf(loc[t].query), now)
    IN  /\ pc[t] = "l1get"
        /\ l1' = [l1 EXCEPT !.data = g.data]
        /\ IF g.ret /= None THEN Returned(t, g.ret, "cache")
           ELSE /\ pc' = [pc EXCEPT ![t] = IF l2.enabled THEN "l2get" ELSE "query"]
                /\ loc' = loc
        /\ UNCHANGED <<l2, now, recency, last, store, done, graph, nops>>

\* MultiLevelCache.get: self._l2.get(key)
SearchL2Get(t) ==
    LET g == SqliteGet(l2, KeyOf(loc[t].query), now)
    IN  /\ pc[t] = "l2get"
        /\ l2' = [l2 EXCEPT !.rows = g.rows]
        /\ pc' = [pc EXCEPT ![t] = IF g.ret /= None THEN "promote" ELSE "query"]
        /\ loc' = [loc EXCEPT ![t].result = g.ret]
        /\ UNCHANGED <<l1, now, recency, last, store, done, graph, nops>>

\* MultiLevelCache.get: self._l1.set(key, value), then the value is returned.
SearchPromote(t) ==
    /\ pc[t] = "promote"
    /\ l1' = [l1 EXCEPT !.data = LruSet(l1, KeyOf(loc[t].query), loc[t].result, now)]
    /\ Returned(t, loc[t].result, "cache")
    /\ UNCHANGED <<l2, now, recency, last, store, done, graph, nops>>

\* Mem0Backend.search: self._memory.search(...)
SearchQuery(t) ==
    /\ pc[t] = "query"
    /\ pc' = [pc EXCEPT ![t] = "l1set"]
    /\ loc' = [loc EXCEPT ![t].result = MemorySearch(store, loc[t].query)]
    /\ UNCHANGED <<l1, l2, now, recency, last, store, done, graph, nops>>

\* MultiLevelCache.set: self._l1.set(key, value)
SearchL1Set(t) ==
    /\ pc[t] = "l1set"
    /\ l1' = [l1 EXCEPT !.data = LruSet(l1, KeyOf(loc[t].query), loc[t].result, now)]
    /\ IF l2.enabled
       THEN pc' = [pc EXCEPT ![t] = "l2set"] /\ loc' = loc
       ELSE Returned(t, loc[t].result, "store")
    /\ UNCHANGED <<l2, now, recency, last, store, done, graph, nops>>

\* MultiLevelCache.set: self._l2.set(key, value), then the result is returned.
SearchL2Set(t) ==
    /\ pc[t] = "l2set"
    /\ l2' = [l2 EXCEPT !.rows = SqliteSet(l2, KeyOf(loc[t].query), loc[t].result, now)]
    /\ Returned(t, loc[t].result, "store")
    /\ UNCHANGED <<l1, now, recency, last, store, done, graph, nops>>

\* Mem0Backend.add: self._memory.add(...)
AddCall(t) ==
    /\ pc[t] = "idle"
    /\ store < MaxAdds
    /\ store' = store + 1
    /\ pc' = [pc EXCEPT ![t] = "l1clear"]
    /\ loc' = [loc EXCEPT ![t] = [NoLocals EXCEPT !.wrote = store + 1]]
    /\ UNCHANGED <<l1, l2, now, recency, last, done, graph, nops>>

\* MultiLevelCache.clear: self._l1.clear()
AddL1Clear(t) ==
    /\ pc[t] = "l1clear"
    /\ l1' = [l1 EXCEPT !.data = LruClear(l1)]
    /\ IF l2.enabled
       THEN pc' = [pc EXCEPT ![t] = "l2clear"] /\ loc' = loc /\ done' = done
       ELSE Returned(t, None, "add") /\ done' = Max(done, loc[t].wrote)
    /\ UNCHANGED <<l2, now, recency, last, store, graph, nops>>

\* MultiLevelCache.clear: self._l2.clear(), then add returns.
AddL2Clear(t) ==
    /\ pc[t] = "l2clear"
    /\ l2' = [l2 EXCEPT !.rows = SqliteClear(l2)]
    /\ Returned(t, None, "add")
    /\ done' = Max(done, loc[t].wrote)
    /\ UNCHANGED <<l1, now, recency, last, store, graph, nops>>

ConcNext ==
    \E t \in Threads :
        \/ \E query \in Queries : SearchCall(t, query)
        \/ SearchL1Get(t)
        \/ SearchL2Get(t)
        \/ SearchPromote(t)
        \/ SearchQuery(t)
        \/ SearchL1Set(t)
        \/ SearchL2Set(t)
        \/ AddCall(t)
        \/ AddL1Clear(t)
        \/ AddL2Clear(t)

\* No time passes in these runs: one positive TTL stands for all.
ConcInit ==
    /\ \E capacity \in 0..MaxCapacity : l1 = LruInit(capacity, 1)
    /\ \E enabled \in BOOLEAN : l2 = SqliteInit(enabled, 1)
    /\ Rest
    /\ NoGraph

SpecConc == ConcInit /\ [][ConcNext]_vars

-----------------------------------------------------------------------------
(* The graph store. KuzuGraphStore and Neo4jGraphStore run the same Cypher  *)
(* statements; a table is the bag of its rows, a relationship names its end *)
(* nodes by their identifiers.                                              *)

NodeTables ==
    {<<"Patient", "patient_id">>, <<"Encounter", "encounter_id">>,
     <<"Observation", "observation_id">>, <<"Medication", "medication_id">>,
     <<"Document", "document_id">>}

\* Each relationship table with the node tables of its two ends.
RelTables ==
    {<<"HAS_ENCOUNTER", 1, 2>>, <<"HAS_OBSERVATION", 2, 3>>, <<"HAS_MEDICATION", 2, 4>>,
     <<"HAS_DOCUMENT", 2, 5>>, <<"HAS_DOCUMENT_DIRECT", 1, 5>>, <<"TAKES_MEDICATION", 1, 4>>}

NodeTable(i) ==
    CASE i = 1 -> <<"Patient", "patient_id">>
      [] i = 2 -> <<"Encounter", "encounter_id">>
      [] i = 3 -> <<"Observation", "observation_id">>
      [] i = 4 -> <<"Medication", "medication_id">>
      [] i = 5 -> <<"Document", "document_id">>

\* Python's truth value of an Optional[str], and `a or b` on Optional values.
Truthy(id) == id /= NoId /\ id /= ""
OrElse(a, b) == IF a /= None THEN a ELSE b

\* MERGE ... SET on the rows `matched` of a table: they all become `row`; with
\* no row matched, one row is created.
MergeRows(table, matched, row) ==
    IF matched = {} THEN table (+) SetToBag({row})
    ELSE LET keep == BagToSet(table) \ matched
             n == BagCardinality([x \in matched |-> table[x]])
         IN  [x \in keep \cup {row} |-> IF x = row THEN n ELSE table[x]]

\* A node statement that creates a node whatever the table holds.
CreateNode(table, idf, node) == table (+) SetToBag({node})

\* A node statement that sets the attributes only when it creates the node.
MergeNodeOnCreate(table, idf, node) ==
    IF \E n \in BagToSet(table) : n[idf] = node[idf]
    THEN table
    ELSE table (+) SetToBag({node})

\* MERGE (n:Label {id: $id}) SET n.a = $a, ...
MergeNode(table, idf, node) ==
    MergeRows(table, {n \in BagToSet(table) : n[idf] = node[idf]}, node)

HasNode(table, idf, id) == \E n \in BagToSet(table) : n[idf] = id

\* A relationship statement that does not MATCH its end nodes first.
MergeRelNoMatch(table, fromExists, toExists, rel) ==
    MergeRows(table, {r \in BagToSet(table) : r.from = rel.from /\ r.to = rel.to}, rel)

\* MATCH (a ...) MATCH (b ...) MERGE (a)-[r:REL]->(b) SET r.x = $x, ...
MergeRel(table, fromExists, toExists, rel) ==
    IF fromExists /\ toExists
    THEN MergeRows(table, {r \in BagToSet(table) : r.from = rel.from /\ r.to = rel.to}, rel)
    ELSE table

\* The parameters of the node statements.
PatientNode(profile) ==
    [patient_id |-> profile.patient_id, name |-> profile.name,
     date_of_birth |-> profile.date_of_birth, sex |-> profile.sex]

EncounterNode(encounter) ==
    [encounter_id |-> encounter.encounter_id,
     encounter_type |-> encounter.encounter_type,
     start_time |-> encounter.start_time,
     end_time |-> encounter.end_time]

ObservationNode(observation) ==
    [observation_id |-> observation.observation_id,
     category |-> observation.category,
     name |-> observation.name,
     value |-> observation.value,
     value_numeric |-> observation.value_numeric,
     unit |-> observation.unit,
     observed_at |-> observation.observed_at]

MedicationNode(medication) ==
    [medication_id |-> medication.medication_id,
     name |-> medication.name,
     indication |-> medication.indication,
     prescriber |-> medication.prescriber,
     status |-> medication.status,
     start_date |-> medication.start_date,
     end_date |-> medication.end_date]

DocumentNode(document) ==
    [document_id |-> document.document_id,
     doc_type |-> document.doc_type,
     title |-> document.title,
     extracted_at |-> document.extracted_at]

AddPatient(g, profile) ==
    [g EXCEPT !.Patient = MergeNode(@, "patient_id", PatientNode(profile))]

\* An add_encounter that takes the encounter away from its other patients.
AddEncounterMoved(g, encounter) ==
    LET created_at == OrElse(encounter.created_at, encounter.start_time)
        g1 == [g EXCEPT !.Encounter = MergeNode(@, "encounter_id",
                                            EncounterNode(encounter))]
        kept == {r \in BagToSet(g1.HAS_ENCOUNTER) :
                     r.to /= encounter.encounter_id \/ r.from = encounter.patient_id}
        g2 == [g1 EXCEPT !.HAS_ENCOUNTER = [r \in kept |-> g1.HAS_ENCOUNTER[r]]]
    IN  [g2 EXCEPT !.HAS_ENCOUNTER = MergeRel(@,
            HasNode(g2.Patient, "patient_id", encounter.patient_id),
            HasNode(g2.Encounter, "encounter_id", encounter.encounter_id),
            [from |-> encounter.patient_id, to |-> encounter.encounter_id,
             created_at |-> created_at])]

AddEncounter(g, encounter) ==
    LET created_at == OrElse(encounter.created_at, encounter.start_time)
        g1 == [g EXCEPT !.Encounter = MergeNode(@, "encounter_id",
                                            EncounterNode(encounter))]
    IN  [g1 EXCEPT !.HAS_ENCOUNTER = MergeRel(@,
            HasNode(g1.Patient, "patient_id", encounter.patient_id),
            HasNode(g1.Encounter, "encounter_id", encounter.encounter_id),
            [from |-> encounter.patient_id, to |-> encounter.encounter_id,
             created_at |-> created_at])]

AddObservation(g, observation) ==
    LET g1 == [g EXCEPT !.Observation = MergeNode(@, "observation_id",
                                              ObservationNode(observation))]
    IN  IF Truthy(observation.encounter_id)
        THEN [g1 EXCEPT !.HAS_OBSERVATION = MergeRel(@,
                 HasNode(g1.Encounter, "encounter_id", observation.encounter_id),
                 HasNode(g1.Observation, "observation_id", observation.observation_id),
                 [from |-> observation.encounter_id, to |-> observation.observation_id])]
        ELSE g1

AddMedication(g, medication) ==
    LET g1 == [g EXCEPT !.Medication = MergeNode(@, "medication_id",
                                             MedicationNode(medication))]
        g2 == IF Truthy(medication.encounter_id)
              THEN [g1 EXCEPT !.HAS_MEDICATION = MergeRel(@,
                       HasNode(g1.Encounter, "encounter_id", medication.encounter_id),
                       HasNode(g1.Medication, "medication_id", medication.medication_id),
                       [from |-> medication.encounter_id, to |-> medication.medication_id])]
              ELSE g1
        prescribed_at == OrElse(medication.start_date, medication.created_at)
    IN  [g2 EXCEPT !.TAKES_MEDICATION = MergeRel(@,
            HasNode(g2.Patient, "patient_id", medication.patient_id),
            HasNode(g2.Medication, "medication_id", medication.medication_id),
            [from |-> medication.patient_id, to |-> medication.medication_id,
             prescribed_at |-> prescribed_at, indication |-> medication.indication])]

\* An add_document that attaches the document to its patient in every case.
AddDocumentAlsoDirect(g, document) ==
    LET g1 == [g EXCEPT !.Document = MergeNode(@, "document_id",
                                           DocumentNode(document))]
        g2 == IF Truthy(document.encounter_id)
              THEN [g1 EXCEPT !.HAS_DOCUMENT = MergeRel(@,
                       HasNode(g1.Encounter, "encounter_id", document.encounter_id),
                       HasNode(g1.Document, "document_id", document.document_id),
                       [from |-> document.encounter_id, to |-> document.document_id])]
              ELSE g1
    IN  [g2 EXCEPT !.HAS_DOCUMENT_DIRECT = MergeRel(@,
            HasNode(g2.Patient, "patient_id", document.patient_id),
            HasNode(g2.Document, "document_id", document.document_id),
            [from |-> document.patient_id, to |-> document.document_id])]

AddDocument(g, document) ==
    LET g1 == [g EXCEPT !.Document = MergeNode(@, "document_id",
                                           DocumentNode(document))]
    IN  IF Truthy(document.encounter_id)
        THEN [g1 EXCEPT !.HAS_DOCUMENT = MergeRel(@,
                 HasNode(g1.Encounter, "encounter_id", document.encounter_id),
                 HasNode(g1.Document, "document_id", document.document_id),
                 [from |-> document.encounter_id, to |-> document.document_id])]
        ELSE [g1 EXCEPT !.HAS_DOCUMENT_DIRECT = MergeRel(@,
                 HasNode(g1.Patient, "patient_id", document.patient_id),
                 HasNode(g1.Document, "document_id", document.document_id),
                 [from |-> document.patient_id, to |-> document.document_id])]

\* The rows a MATCH over one relationship gives: one per relationship and per
\* pair of end nodes it joins.
Matches(g, fromTable, fromIdf, rel, toTable, toIdf, fromId) ==
    {m \in [a : BagToSet(g[fromTable]), r : BagToSet(g[rel]), b : BagToSet(g[toTable]),
            i : 1..3] :
        /\ m.a[fromIdf] = fromId
        /\ m.r.from = fromId
        /\ m.b[toIdf] = m.r.to
        /\ m.i <= g[fromTable][m.a] * g[rel][m.r] * g[toTable][m.b]}

\* A pairs query that filters on m1.medication_id <> m2.medication_id.
GetMedicationPairsUnordered(g, patient_id) ==
    LET ms == Matches(g, "Patient", "patient_id", "TAKES_MEDICATION",
                      "Medication", "medication_id", patient_id)
    IN  {[medication_a_id |-> x.b.medication_id, medication_a_name |-> x.b.name,
          medication_b_id |-> y.b.medication_id, medication_b_name |-> y.b.name,
          match |-> <<x.r, x.i, y.r, y.i>>] :
            <<x, y>> \in {xy \in ms \X ms :
                /\ xy[1].a = xy[2].a
                /\ xy[1].b.medication_id /= xy[2].b.medication_id}}

\* get_medication_pairs: the result rows, each with the match it comes from
\* (two equal rows from two matches are two rows of the result).
GetMedicationPairs(g, patient_id) ==
    LET ms == Matches(g, "Patient", "patient_id", "TAKES_MEDICATION",
                      "Medication", "medication_id", patient_id)
    IN  {[medication_a_id |-> x.b.medication_id, medication_a_name |-> x.b.name,
          medication_b_id |-> y.b.medication_id, medication_b_name |-> y.b.name,
          match |-> <<x.r, x.i, y.r, y.i>>] :
            <<x, y>> \in {xy \in ms \X ms :
                /\ xy[1].a = xy[2].a
                /\ StrLess(xy[1].b.medication_id, xy[2].b.medication_id)}}

\* A query that leaves out WHERE m.status = $status.
GetActiveMedicationsAnyStatus(g, patient_id) ==
    LET ms == Matches(g, "Patient", "patient_id", "TAKES_MEDICATION",
                      "Medication", "medication_id", patient_id)
    IN  {[medication_id |-> x.b.medication_id, name |-> x.b.name,
          indication |-> x.b.indication, prescriber |-> x.b.prescriber,
          status |-> x.b.status, start_date |-> x.b.start_date,
          end_date |-> x.b.end_date, match |-> <<x.r, x.i>>] : x \in ms}

\* get_active_medications: the result rows, each with the match it comes from.
GetActiveMedications(g, patient_id) ==
    LET ms == Matches(g, "Patient", "patient_id", "TAKES_MEDICATION",
                      "Medication", "medication_id", patient_id)
    IN  {[medication_id |-> x.b.medication_id, name |-> x.b.name,
          indication |-> x.b.indication, prescriber |-> x.b.prescriber,
          status |-> x.b.status, start_date |-> x.b.start_date,
          end_date |-> x.b.end_date, match |-> <<x.r, x.i>>] :
            x \in {y \in ms : y.b.status = "active"}}

\* Python's None where a dict may stand.
NullRow == [none |-> TRUE]

\* The rows of MATCH (e:Encounter {encounter_id: $encounter_id}) RETURN ...
EncounterRows(g, encounter_id) ==
    {[encounter_id |-> n.encounter_id, encounter_type |-> n.encounter_type,
      start_time |-> n.start_time, end_time |-> n.end_time, match |-> i] :
        <<n, i>> \in {ni \in BagToSet(g.Encounter) \X (1..3) :
                          /\ ni[1].encounter_id = encounter_id
                          /\ ni[2] <= g.Encounter[ni[1]]}}

\* The rows of MATCH (e:Encounter {...})-[:REL]->(x) RETURN x's attributes.
EncounterParts(g, encounter_id, rel, toTable, toIdf) ==
    {[node |-> m.b, match |-> <<m.r, m.i>>] :
        m \in Matches(g, "Encounter", "encounter_id", rel, toTable, toIdf, encounter_id)}

\* A record built with encounter_rows[0] whether or not there is a row.
GetEncounterRecordFirstRow(g, encounter_id) ==
    LET encounter_rows == EncounterRows(g, encounter_id)
    IN  IF encounter_rows = {} THEN [error |-> "IndexError"]
        ELSE [encounter |-> [f \in {"encounter_id", "encounter_type", "start_time",
                                    "end_time"} |->
                                 (CHOOSE row \in encounter_rows : TRUE)[f]],
              observations |-> EncounterParts(g, encounter_id, "HAS_OBSERVATION",
                                              "Observation", "observation_id"),
              medications |-> EncounterParts(g, encounter_id, "HAS_MEDICATION",
                                             "Medication", "medication_id"),
              documents |-> EncounterParts(g, encounter_id, "HAS_DOCUMENT",
                                           "Document", "document_id")]

\* get_encounter_record: four queries, and
\* "encounter": encounter_rows[0] if encounter_rows else None.
GetEncounterRecord(g, encounter_id) ==
    LET encounter_rows == EncounterRows(g, encounter_id)
    IN  [encounter |-> IF encounter_rows /= {}
                       THEN [f \in {"encounter_id", "encounter_type", "start_time",
                                    "end_time"} |->
                                 (CHOOSE row \in encounter_rows : TRUE)[f]]
                       ELSE NullRow,
         observations |-> EncounterParts(g, encounter_id, "HAS_OBSERVATION",
                                         "Observation", "observation_id"),
         medications |-> EncounterParts(g, encounter_id, "HAS_MEDICATION",
                                        "Medication", "medication_id"),
         documents |-> EncounterParts(g, encounter_id, "HAS_DOCUMENT",
                                      "Document", "document_id")]

\* Every sequence that lists the elements of a finite set once each.
Orders(S) ==
    {f \in [1..Cardinality(S) -> S] : \A i, j \in 1..Cardinality(S) : i /= j => f[i] /= f[j]}

Min(a, b) == IF a <= b THEN a ELSE b

\* The place of an event_time in ORDER BY: Cypher orders null as the largest
\* value, so that it comes last ascending and first descending.
NullRank == 1000000
OrderKey(t) == IF t = None THEN NullRank ELSE t

\* ORDER BY event_time DESC on a set of rows: the orders in which no row
\* comes before a row of a larger key (rows of equal keys in either order).
OrderByDesc(S) ==
    {f \in Orders(S) : \A i, j \in 1..Cardinality(S) :
        i < j => OrderKey(f[i].event_time) >= OrderKey(f[j].event_time)}

\* LIMIT n
Limit(rows, n) == SubSeq(rows, 1, Min(n, Len(rows)))

\* One part of the UNION ALL: MATCH (p:Patient {patient_id})-[:REL]->(x)
\* RETURN kind AS event_type, x.id AS ref_id, x.time AS event_time.
Events(g, patient_id, rel, toTable, toIdf, kind, timef) ==
    {[event_type |-> kind, ref_id |-> m.b[toIdf], event_time |-> m.b[timef],
      match |-> <<m.r, m.i>>] :
        m \in Matches(g, "Patient", "patient_id", rel, toTable, toIdf, patient_id)}

\* A timeline query whose ORDER BY and LIMIT are applied to the rows of the
\* three parts together.
GetPatientTimelineOrderAll(g, patient_id, limit) ==
    LET all == Events(g, patient_id, "HAS_ENCOUNTER", "Encounter", "encounter_id",
                      "encounter", "start_time")
               \cup Events(g, patient_id, "TAKES_MEDICATION", "Medication", "medication_id",
                           "medication", "start_date")
               \cup Events(g, patient_id, "HAS_DOCUMENT_DIRECT", "Document", "document_id",
                           "document", "extracted_at")
    IN  {Limit(rows, limit) : rows \in OrderByDesc(all)}

\* get_patient_timeline: the results the query can give. ORDER BY and LIMIT
\* are part of the RETURN they follow, the one of the last part of the
\* UNION ALL; the rows of the first two parts come as they are matched, in an
\* order the query does not fix, and none of them is cut off.
GetPatientTimeline(g, patient_id, limit) ==
    LET encounters == Events(g, patient_id, "HAS_ENCOUNTER", "Encounter",
                             "encounter_id", "encounter", "start_time")
        medications == Events(g, patient_id, "TAKES_MEDICATION", "Medication",
                              "medication_id", "medication", "start_date")
        documents == Events(g, patient_id, "HAS_DOCUMENT_DIRECT", "Document",
                            "document_id", "document", "extracted_at")
    IN  {e \o m \o Limit(d, limit) :
            e \in Orders(encounters), m \in Orders(medications),
            d \in OrderByDesc(documents)}

DefaultTimelineLimit == 200
Limits == {1, 2, DefaultTimelineLimit}

-----------------------------------------------------------------------------
(* The entities the services hand to the store.                             *)

PatientIds == {"p1", "p2"}
EncounterIds == {"e1", "e2"}
MedicationIds == {"m1", "m2", "m10"}
DocumentIds == {"d1", "d2"}
ObservationIds == {"o1"}
T1 == 2
T2 == 1
T3 == 3

Profiles ==
    {[patient_id |-> p, name |-> v[1], date_of_birth |-> v[2], sex |-> v[3]] :
        p \in PatientIds, v \in {<<"Ann", "1980-01-01", "F">>, <<NoId, NoId, NoId>>}}

Encounters ==
    {[encounter_id |-> e, patient_id |-> p, encounter_type |-> "consultation",
      start_time |-> t, end_time |-> None, created_at |-> None] :
        e \in EncounterIds, p \in PatientIds, t \in {None, T1}}

Observations ==
    {[observation_id |-> o, patient_id |-> "p1", encounter_id |-> v[1],
      category |-> "lab", name |-> "hb", value |-> v[2], value_numeric |-> None,
      unit |-> NoId, observed_at |-> None] :
        o \in ObservationIds, v \in {<<NoId, "12">>, <<"e1", "12">>, <<"e1", "13">>}}

Medications ==
    {[medication_id |-> m, patient_id |-> p, encounter_id |-> v[1],
      name |-> "drug", indication |-> NoId, prescriber |-> NoId,
      status |-> v[2], start_date |-> v[3], end_date |-> None, created_at |-> None] :
        m \in MedicationIds, p \in PatientIds,
        v \in {<<NoId, "active", T2>>, <<NoId, "stopped", None>>, <<"e1", "active", T2>>}}

Documents ==
    {[document_id |-> d, patient_id |-> p, encounter_id |-> v[1],
      doc_type |-> "lab", title |-> NoId, extracted_at |-> v[2]] :
        d \in DocumentIds, p \in PatientIds,
        v \in {<<NoId, T3>>, <<NoId, None>>, <<"e1", T3>>, <<"", T3>>}}

GraphInit ==
    /\ graph = EmptyGraph
    /\ nops = 0
    /\ l1 = LruInit(1, 0)
    /\ l2 = SqliteInit(FALSE, 0)
    /\ Rest

DoAddPatient(profile) ==
    /\ nops < MaxOps
    /\ graph' = AddPatient(graph, profile)
    /\ nops' = nops + 1
    /\ UNCHANGED <<l1, l2, now, recency, last, store, pc, loc, done>>

DoAddEncounter(encounter) ==
    /\ nops < MaxOps
    /\ graph' = AddEncounter(graph, encounter)
    /\ nops' = nops + 1
    /\ UNCHANGED <<l1, l2, now, recency, last, store, pc, loc, done>>

DoAddObservation(observation) ==
    /\ nops < MaxOps
    /\ graph' = AddObservation(graph, observation)
    /\ nops' = nops + 1
    /\ UNCHANGED <<l1, l2, now, recency, last, store, pc, loc, done>>

DoAddMedication(medication) ==
    /\ nops < MaxOps
    /\ graph' = AddMedication(graph, medication)
    /\ nops' = nops + 1
    /\ UNCHANGED <<l1, l2, now, recency, last, store, pc, loc, done>>

DoAddDocument(document) ==
    /\ nops < MaxOps
    /\ graph' = AddDocument(graph, document)
    /\ nops' = nops + 1
    /\ UNCHANGED <<l1, l2, now, recency, last, store, pc, loc, done>>

GraphNext ==
    \/ \E profile \in Profiles : DoAddPatient(profile)
    \/ \E encounter \in Encounters : DoAddEncounter(encounter)
    \/ \E observation \in Observations : DoAddObservation(observation)
    \/ \E medication \in Medications : DoAddMedication(medication)
    \/ \E document \in Documents : DoAddDocument(document)

SpecGraph == GraphInit /\ [][GraphNext]_vars

-----------------------------------------------------------------------------
(* Claims about the cache.                                                  *)

KeysIn(data) == {data[i].key : i \in 1..Len(data)}
EntryOf(data, key) == data[IndexOf(data, key)]
Pos(rec, key) == CHOOSE i \in 1..Len(rec) : rec[i] = key
Live(item, t) == item.expires_at = None \/ item.expires_at > t

\* C1: a set of a new key into a full LruCache evicts exactly the entry whose
\* last use (set or successful get) is the oldest and leaves every other entry
\* as it was; a get of the evicted key then returns nothing and a get of any
\* other unexpired key returns its value.
C1_LruEvictsLeastRecentlyUsed ==
    [][\A k \in Keys :
        (k \in KeysIn(l1'.data) /\ k \notin KeysIn(l1.data) /\ Len(l1.data) = l1.capacity)
        => \E victim \in KeysIn(l1.data) :
            /\ \A o \in KeysIn(l1.data) \ {victim} : Pos(recency, victim) < Pos(recency, o)
            /\ KeysIn(l1'.data) = (KeysIn(l1.data) \ {victim}) \cup {k}
            /\ Len(l1'.data) = l1.capacity
            /\ \A o \in KeysIn(l1.data) \ {victim} :
                   EntryOf(l1'.data, o) = EntryOf(l1.data, o)
            /\ LruGet(l1', victim, now').ret = None
            /\ \A o \in KeysIn(l1'.data) :
                   Live(EntryOf(l1'.data, o), now')
                   => LruGet(l1', o, now').ret = EntryOf(l1'.data, o).value
      ]_vars

C1_Witness ==
    /\ last.op = "l1set"
    /\ last.src = "full"
    /\ l1.capacity = 2
    /\ Len(recency) = 3

\* C2: composite get returns an L1 hit and leaves L2 untouched; on an L1 miss
\* and an L2 hit it returns the L2 value and L1 holds that value afterwards;
\* and right after a composite set(k, v) and a clear of L1 alone, a composite
\* get(k) returns v and leaves v in L1.
C2_GetPromotes ==
    [][/\ last'.op = "get" =>
            LET k == last'.key
                h1 == LruGet(l1, k, now)
                h2 == SqliteGet(l2, k, now)
            IN  /\ h1.ret /= None => (last'.ret = h1.ret /\ l2' = l2)
                /\ (h1.ret = None /\ l2.enabled /\ h2.ret /= None)
                   => /\ last'.ret = h2.ret
                      /\ LruGet(l1', k, now').ret = h2.ret
                /\ (h1.ret = None /\ (~l2.enabled \/ h2.ret = None))
                   => last'.ret = None
       /\ (last.op = "set" /\ last'.op = "l1clear" /\ l2.enabled) =>
            LET g == MultiLevelGet(l1', l2', last.key, now')
            IN  /\ g.ret = last.value
                /\ LruGet([l1' EXCEPT !.data = g.data], last.key, now').ret = last.value
      ]_vars

C2_Witness ==
    /\ last.op = "get"
    /\ last.src = "l2"
    /\ last.ret /= None
    /\ LruGet(l1, last.key, now).ret = last.ret

\* C3: right after Mem0Backend.add has returned, neither layer holds an entry
\* for any key and a search for any query goes to the underlying store.
C3_AddClearsCache ==
    last.op = "add" =>
        /\ l1.data = <<>>
        /\ l2.rows = {}
        /\ \A query \in Queries :
               LET s == Mem0BackendSearch(l1, l2, store, query, now)
               IN  s.src = "store" /\ s.ret = MemorySearch(store, query)

C3_Witness ==
    /\ last.op = "add"
    /\ last.dirty
    /\ l2.enabled

\* C4: no search that is called after a write has returned gets from the
\* cache a result that the store computed before that write.
C4_NoStaleRead ==
    \A t \in Threads :
        (pc[t] = "idle" /\ loc[t].src = "cache") => loc[t].result >= loc[t].began

-----------------------------------------------------------------------------
(* Claims about the graph store.                                            *)

\* How many rows of a table are among `rows`.
Copies(table, rows) == BagCardinality([x \in rows \cap BagToSet(table) |-> table[x]])
NodesWith(table, idf, id) == {n \in BagToSet(table) : n[idf] = id}
RelsTo(table, id) == {r \in BagToSet(table) : r.to = id}
RelsFrom(table, id) == {r \in BagToSet(table) : r.from = id}
Between(table, from, to) == {r \in BagToSet(table) : r.from = from /\ r.to = to}

UniqueNodes(g) ==
    \A nt \in NodeTables : \A n \in BagToSet(g[nt[1]]) :
        Copies(g[nt[1]], NodesWith(g[nt[1]], nt[2], n[nt[2]])) = 1

UniqueRels(g) ==
    \A rt \in RelTables : \A r \in BagToSet(g[rt[1]]) :
        Copies(g[rt[1]], Between(g[rt[1]], r.from, r.to)) = 1

EndsExist(g) ==
    \A rt \in RelTables : \A r \in BagToSet(g[rt[1]]) :
        /\ HasNode(g[NodeTable(rt[2])[1]], NodeTable(rt[2])[2], r.from)
        /\ HasNode(g[NodeTable(rt[3])[1]], NodeTable(rt[3])[2], r.to)

\* Written twice is written once, with one node of that identifier and no
\* relationship twice.
Once(g1, g2, table, idf, id) ==
    /\ g2 = g1
    /\ Copies(g2[table], NodesWith(g2[table], idf, id)) = 1
    /\ UniqueRels(g2)

\* C5: from every reachable graph, each add operation run twice with the same
\* entity leaves the graph that running it once leaves, with exactly one node
\* of that identifier and no duplicate relationship.
C5_AddIsIdempotent ==
    /\ \A x \in Profiles :
           Once(AddPatient(graph, x), AddPatient(AddPatient(graph, x), x),
                "Patient", "patient_id", x.patient_id)
    /\ \A x \in Encounters :
           Once(AddEncounter(graph, x), AddEncounter(AddEncounter(graph, x), x),
                "Encounter", "encounter_id", x.encounter_id)
    /\ \A x \in Observations :
           Once(AddObservation(graph, x), AddObservation(AddObservation(graph, x), x),
                "Observation", "observation_id", x.observation_id)
    /\ \A x \in Medications :
           Once(AddMedication(graph, x), AddMedication(AddMedication(graph, x), x),
                "Medication", "medication_id", x.medication_id)
    /\ \A x \in Documents :
           Once(AddDocument(graph, x), AddDocument(AddDocument(graph, x), x),
                "Document", "document_id", x.document_id)

C5_Witness ==
    /\ nops = 4
    /\ \E p \in Profiles, e \in Encounters :
           /\ e.patient_id = p.patient_id
           /\ graph = AddEncounter(AddPatient(EmptyGraph, p), e)

\* C6: no table holds two nodes of one identifier, and after a write the node
\* of that identifier carries exactly the attributes of the entity written.
C6_UpsertLastWriteWins ==
    /\ UniqueNodes(graph)
    /\ \A x \in Profiles :
           NodesWith(AddPatient(graph, x).Patient, "patient_id", x.patient_id)
               = {PatientNode(x)}
    /\ \A x \in Encounters :
           NodesWith(AddEncounter(graph, x).Encounter, "encounter_id", x.encounter_id)
               = {EncounterNode(x)}
    /\ \A x \in Observations :
           NodesWith(AddObservation(graph, x).Observation, "observation_id",
                     x.observation_id) = {ObservationNode(x)}
    /\ \A x \in Medications :
           NodesWith(AddMedication(graph, x).Medication, "medication_id",
                     x.medication_id) = {MedicationNode(x)}
    /\ \A x \in Documents :
           NodesWith(AddDocument(graph, x).Document, "document_id", x.document_id)
               = {DocumentNode(x)}

C6_Witness ==
    /\ RelsTo(graph.HAS_MEDICATION, "m1") /= {}
    /\ NodesWith(graph.Medication, "medication_id", "m1") /= {}
    /\ \A n \in NodesWith(graph.Medication, "medication_id", "m1") :
           n.status = "stopped" /\ n.start_date = None
    /\ Copies(graph.Medication, NodesWith(graph.Medication, "medication_id", "m1")) = 1

\* C7: no Document node has both an incoming HAS_DOCUMENT relationship and an
\* incoming HAS_DOCUMENT_DIRECT relationship.
C7_DocumentAttachedOneWay ==
    \A d \in DocumentIds :
        ~(RelsTo(graph.HAS_DOCUMENT, d) /= {} /\ RelsTo(graph.HAS_DOCUMENT_DIRECT, d) /= {})

\* C8 as stated: an add_document of a document not yet in the graph gives,
\* with an encounter_id, one HAS_DOCUMENT relationship from that Encounter and
\* no HAS_DOCUMENT_DIRECT one, and without an encounter_id the opposite.
C8_AsStated ==
    \A x \in Documents :
        ~HasNode(graph.Document, "document_id", x.document_id) =>
            LET g == AddDocument(graph, x)
                viaEncounter == RelsTo(g.HAS_DOCUMENT, x.document_id)
                direct == RelsTo(g.HAS_DOCUMENT_DIRECT, x.document_id)
            IN  IF x.encounter_id /= NoId
                THEN /\ viaEncounter = {[from |-> x.encounter_id, to |-> x.document_id]}
                     /\ direct = {}
                ELSE /\ direct = {[from |-> x.patient_id, to |-> x.document_id]}
                     /\ viaEncounter = {}

\* C8, amended: an add_document of a document not yet in the graph gives, with
\* a non-empty encounter_id, no HAS_DOCUMENT_DIRECT relationship and exactly
\* one HAS_DOCUMENT relationship, from that Encounter, when the Encounter node
\* exists (none when it does not); without an encounter_id (None or the empty
\* string) it gives no HAS_DOCUMENT relationship and exactly one
\* HAS_DOCUMENT_DIRECT relationship, from its Patient, when the Patient node
\* exists (none when it does not).
C8_DocumentRelationship ==
    \A x \in Documents :
        ~HasNode(graph.Document, "document_id", x.document_id) =>
            LET g == AddDocument(graph, x)
                viaEncounter == RelsTo(g.HAS_DOCUMENT, x.document_id)
                direct == RelsTo(g.HAS_DOCUMENT_DIRECT, x.document_id)
            IN  IF x.encounter_id /= NoId /\ x.encounter_id /= ""
                THEN /\ direct = {}
                     /\ viaEncounter =
                            IF HasNode(graph.Encounter, "encounter_id", x.encounter_id)
                            THEN {[from |-> x.encounter_id, to |-> x.document_id]}
                            ELSE {}
                     /\ Copies(g.HAS_DOCUMENT, viaEncounter) = Cardinality(viaEncounter)
                ELSE /\ viaEncounter = {}
                     /\ direct =
                            IF HasNode(graph.Patient, "patient_id", x.patient_id)
                            THEN {[from |-> x.patient_id, to |-> x.document_id]}
                            ELSE {}
                     /\ Copies(g.HAS_DOCUMENT_DIRECT, direct) = Cardinality(direct)

C8_Witness ==
    /\ RelsTo(graph.HAS_DOCUMENT, "d1") = {[from |-> "e1", to |-> "d1"]}
    /\ RelsTo(graph.HAS_DOCUMENT_DIRECT, "d1") = {}
    /\ RelsTo(graph.HAS_DOCUMENT_DIRECT, "d2") = {[from |-> "p1", to |-> "d2"]}
    /\ RelsTo(graph.HAS_DOCUMENT, "d2") = {}

\* The node tables other than `table` are as they were.
OtherNodesKept(g1, g2, table) ==
    \A nt \in NodeTables : nt[1] /= table => g2[nt[1]] = g1[nt[1]]

\* C9: both ends of every relationship are existing nodes; an add operation
\* writes its entity node, creates no node of another kind, and leaves a
\* relationship table as it was when the Patient or Encounter it refers to
\* does not exist.
C9_RelationshipEndsExist ==
    /\ EndsExist(graph)
    /\ \A x \in Encounters :
           LET g == AddEncounter(graph, x)
           IN  /\ EndsExist(g)
               /\ HasNode(g.Encounter, "encounter_id", x.encounter_id)
               /\ OtherNodesKept(graph, g, "Encounter")
               /\ ~HasNode(graph.Patient, "patient_id", x.patient_id)
                  => g.HAS_ENCOUNTER = graph.HAS_ENCOUNTER
    /\ \A x \in Observations :
           LET g == AddObservation(graph, x)
           IN  /\ EndsExist(g)
               /\ HasNode(g.Observation, "observation_id", x.observation_id)
               /\ OtherNodesKept(graph, g, "Observation")
               /\ ~HasNode(graph.Encounter, "encounter_id", x.encounter_id)
                  => g.HAS_OBSERVATION = graph.HAS_OBSERVATION
    /\ \A x \in Medications :
           LET g == AddMedication(graph, x)
           IN  /\ EndsExist(g)
               /\ HasNode(g.Medication, "medication_id", x.medication_id)
               /\ OtherNodesKept(graph, g, "Medication")
               /\ ~HasNode(graph.Patient, "patient_id", x.patient_id)
                  => g.TAKES_MEDICATION = graph.TAKES_MEDICATION
               /\ ~HasNode(graph.Encounter, "encounter_id", x.encounter_id)
                  => g.HAS_MEDICATION = graph.HAS_MEDICATION
    /\ \A x \in Documents :
           LET g == AddDocument(graph, x)
           IN  /\ EndsExist(g)
               /\ HasNode(g.Document, "document_id", x.document_id)
               /\ OtherNodesKept(graph, g, "Document")
               /\ ~HasNode(graph.Patient, "patient_id", x.patient_id)
                  => g.HAS_DOCUMENT_DIRECT = graph.HAS_DOCUMENT_DIRECT
               /\ ~HasNode(graph.Encounter, "encounter_id", x.encounter_id)
                  => g.HAS_DOCUMENT = graph.HAS_DOCUMENT

C9_Witness ==
    /\ HasNode(graph.Encounter, "encounter_id", "e1")
    /\ HasNode(graph.Medication, "medication_id", "m1")
    /\ graph.Patient = EmptyBag
    /\ graph.HAS_ENCOUNTER = EmptyBag
    /\ graph.TAKES_MEDICATION = EmptyBag
    /\ BagCardinality(graph.HAS_MEDICATION) = 1

\* C10: get_medication_pairs gives n*(n-1)/2 rows for the n medications the
\* patient TAKES, one for every two distinct medications, the smaller
\* identifier (as strings) first, none twice and none in both orders; for
\* m1 and m2 the one row is (m1, m2).
C10_MedicationPairs ==
    \A p \in PatientIds :
        LET rows == GetMedicationPairs(graph, p)
            taken == {r.to : r \in RelsFrom(graph.TAKES_MEDICATION, p)}
            n == Cardinality(taken)
            pairs == {<<r.medication_a_id, r.medication_b_id>> : r \in rows}
        IN  /\ Cardinality(rows) = (n * (n - 1)) \div 2
            /\ Cardinality(pairs) = Cardinality(rows)
            /\ \A a \in taken, b \in taken :
                   a /= b => (<<a, b>> \in pairs) /= (<<b, a>> \in pairs)
            /\ \A r \in rows :
                   /\ r.medication_a_id \in taken
                   /\ r.medication_b_id \in taken
                   /\ r.medication_a_id /= r.medication_b_id
                   /\ StrLess(r.medication_a_id, r.medication_b_id)
            /\ taken = {"m1", "m2"} => pairs = {<<"m1", "m2">>}
            /\ taken = {"m10", "m2"} => pairs = {<<"m10", "m2">>}

C10_Witness ==
    /\ Cardinality(GetMedicationPairs(graph, "p1")) = 3
    /\ nops = 4

-----------------------------------------------------------------------------
(* Claims about the timeline.                                               *)

AllEvents(g, patient_id) ==
    Events(g, patient_id, "HAS_ENCOUNTER", "Encounter", "encounter_id",
           "encounter", "start_time")
    \cup Events(g, patient_id, "TAKES_MEDICATION", "Medication", "medication_id",
                "medication", "start_date")
    \cup Events(g, patient_id, "HAS_DOCUMENT_DIRECT", "Document", "document_id",
                "document", "extracted_at")

RowsOfSeq(rows) == {rows[i] : i \in 1..Len(rows)}
Kinds(rows) == [i \in 1..Len(rows) |-> rows[i].event_type]

\* C11: every result of get_patient_timeline(patient, limit) holds events of
\* all three kinds of the patient as one list, at most `limit` of them (the
\* latest ones), in descending order of event time across the kinds; an
\* encounter at T1, a medication at T2 and a directly attached document at T3
\* come as [document, encounter, medication].
C11_TimelineMergedSortedLimited ==
    \A p \in PatientIds, limit \in Limits :
        \A rows \in GetPatientTimeline(graph, p, limit) :
            LET all == AllEvents(graph, p)
            IN  /\ Len(rows) = Min(limit, Cardinality(all))
                /\ RowsOfSeq(rows) \subseteq all
                /\ \A i, j \in 1..Len(rows) :
                       (i < j /\ rows[i].event_time /= None /\ rows[j].event_time /= None)
                           => rows[i].event_time >= rows[j].event_time
                /\ \A x \in all \ RowsOfSeq(rows), i \in 1..Len(rows) :
                       (x.event_time /= None /\ rows[i].event_time /= None)
                           => rows[i].event_time >= x.event_time
                /\ ({<<x.event_type, x.event_time>> : x \in all}
                        = {<<"encounter", T1>>, <<"medication", T2>>, <<"document", T3>>}
                    /\ Cardinality(all) = 3 /\ limit >= 3)
                   => Kinds(rows) = <<"document", "encounter", "medication">>

\* C12: in every result of get_patient_timeline no event without a timestamp
\* comes before an event that has one.
C12_TimelineNullsLast ==
    \A p \in PatientIds, limit \in Limits :
        \A rows \in GetPatientTimeline(graph, p, limit) :
            \A i, j \in 1..Len(rows) :
                (rows[i].event_time = None /\ rows[j].event_time /= None) => j < i

-----------------------------------------------------------------------------
(* Claims about expiry.                                                     *)

\* The caches as they are, configured with the TTL ttl_seconds.
L1With(ttl_seconds) == [l1 EXCEPT !.ttl_seconds = ttl_seconds]
L2With(ttl_seconds) == [l2 EXCEPT !.ttl_seconds = ttl_seconds, !.enabled = TRUE]

\* C13: in L1 and in L2, each with a TTL of its own, an entry set at time s
\* with TTL T > 0 is returned by get at every time before s + T and at no time
\* from s + T on; and every entry a cache holds is returned by get now when
\* its expiry instant is still ahead and is not returned when it is reached.
C13_TtlExpiry ==
    /\ \A k \in Keys, v \in Values, T \in 1..MaxTtl :
           LET s1 == [L1With(T) EXCEPT !.data = LruSet(L1With(T), k, v, now)]
               s2 == [L2With(T) EXCEPT !.rows = SqliteSet(L2With(T), k, v, now)]
           IN  \A t \in now..(now + T + 1) :
                   /\ LruGet(s1, k, t).ret = (IF t < now + T THEN v ELSE None)
                   /\ SqliteGet(s2, k, t).ret = (IF t < now + T THEN v ELSE None)
    /\ \A i \in 1..Len(l1.data) :
           /\ l1.data[i].expires_at /= None =>
                  /\ l1.ttl_seconds > 0
                  /\ l1.data[i].expires_at <= now + l1.ttl_seconds
           /\ LruGet(l1, l1.data[i].key, now).ret =
                  (IF l1.data[i].expires_at = None \/ now < l1.data[i].expires_at
                   THEN l1.data[i].value ELSE None)
    /\ \A r \in l2.rows :
           r.ttl_seconds > 0 =>
               SqliteGet(l2, r.cache_key, now).ret =
                   (IF now < r.updated_at + r.ttl_seconds
                    THEN JsonLoads(r.cache_value) ELSE None)

C13_Witness ==
    /\ l1.ttl_seconds = 1
    /\ l2.enabled /\ l2.ttl_seconds = 1
    /\ \E i \in 1..Len(l1.data) : l1.data[i].expires_at = now
    /\ \E r \in l2.rows : r.updated_at + r.ttl_seconds = now
    /\ \E r \in l2.rows : r.updated_at = now

-----------------------------------------------------------------------------
(* Claims about the two layers.                                             *)

\* C14: a get on L1 of an absent key returns nothing and changes nothing; of
\* an expired key returns nothing and removes that entry and no other; of a
\* live key returns its value and moves the entry, unchanged, to the
\* most-recently-used end, the other entries keeping their order.
C14_L1Get ==
    [][last'.op = "l1get" =>
        LET k == last'.key
            i == IndexOf(l1.data, k)
        IN  IF i = 0
            THEN last'.ret = None /\ l1' = l1
            ELSE IF ~Live(l1.data[i], now)
            THEN /\ last'.ret = None
                 /\ l1'.data = RemoveAt(l1.data, i)
                 /\ k \notin KeysIn(l1'.data)
                 /\ Len(l1'.data) = Len(l1.data) - 1
            ELSE /\ last'.ret = l1.data[i].value
                 /\ Len(l1'.data) = Len(l1.data)
                 /\ l1'.data[Len(l1'.data)] = l1.data[i]
                 /\ SubSeq(l1'.data, 1, Len(l1.data) - 1) = RemoveAt(l1.data, i)]_vars

C14_Witness ==
    /\ last.op = "l1get"
    /\ last.src = "expired"
    /\ last.key \notin KeysIn(l1.data)
    /\ Len(l1.data) = 1

\* C15: whatever gets, sets and clears the threads interleave, L1 holds at
\* most `capacity` entries, one per key, where a configured capacity below 1
\* counts as 1.
C15_L1Bounded ==
    /\ l1.capacity >= 1
    /\ Len(l1.data) <= l1.capacity
    /\ Cardinality(KeysIn(l1.data)) = Len(l1.data)
    /\ \A capacity \in -1..MaxCapacity :
           LruInit(capacity, l1.ttl_seconds).capacity
               = (IF capacity < 1 THEN 1 ELSE capacity)

C15_Witness ==
    /\ l1.capacity = 1
    /\ Len(l1.data) = 1
    /\ pc["t1"] = "l1set" /\ pc["t2"] = "l1set"
    /\ loc["t1"].query /= loc["t2"].query
    /\ KeysIn(l1.data) \cap {KeyOf(loc["t1"].query), KeyOf(loc["t2"].query)} = {}

\* Every time from now on that the model's clock and TTLs can tell apart.
Later == now..(MaxTime + MaxTtl + 1)

\* C16: a TTL below zero is taken as zero; an entry set under a TTL of zero has
\* no expiry instant and is returned by get at every later time; and it stays
\* in its layer over every step that is not a set of its key, a clear or, in
\* L1, a set that may evict it.
C16_ZeroTtlNeverExpires ==
    [][/\ \A ttl \in TtlChoices :
              ttl <= 0 => /\ LruInit(l1.capacity, ttl).ttl_seconds = 0
                          /\ SqliteInit(l2.enabled, ttl).ttl_seconds = 0
       /\ l1'.ttl_seconds = 0 =>
              \A i \in 1..Len(l1'.data) :
                  /\ l1'.data[i].expires_at = None
                  /\ \A t \in Later :
                         LruGet(l1', l1'.data[i].key, t).ret = l1'.data[i].value
       /\ \A r \in l2'.rows :
              r.ttl_seconds = 0 =>
                  \A t \in Later :
                      /\ SqliteGet(l2', r.cache_key, t).ret = JsonLoads(r.cache_value)
                      /\ SqliteGet(l2', r.cache_key, t).rows = l2'.rows
       /\ (l1.ttl_seconds = 0 /\ (last'.op = "tick" \/ (last'.op = "get" /\ last'.src /= "l2")))
              => \A i \in 1..Len(l1.data) :
                     /\ l1.data[i].key \in KeysIn(l1'.data)
                     /\ EntryOf(l1'.data, l1.data[i].key) = l1.data[i]
       /\ last'.op \in {"tick", "get", "l1clear"}
              => \A r \in l2.rows : r.ttl_seconds = 0 => r \in l2'.rows
       /\ last'.op = "set"
              => \A r \in l2.rows :
                     (r.ttl_seconds = 0 /\ r.cache_key /= last'.key) => r \in l2'.rows]_vars

C16_Witness ==
    /\ l1.ttl_seconds = 0
    /\ l2.enabled /\ l2.ttl_seconds = 0
    /\ now = MaxTime
    /\ last.op = "get" /\ last.src = "l1" /\ last.ret /= None
    /\ \E r \in l2.rows : r.cache_key = last.key /\ r.updated_at = 0

\* The row that set(key, value) writes now.
RowWritten(key, value) ==
    [cache_key |-> key, cache_value |-> JsonDumps(value),
     updated_at |-> now, ttl_seconds |-> l2.ttl_seconds]

Expired(r, t) == r.ttl_seconds > 0 /\ r.updated_at + r.ttl_seconds <= t

\* C17: the L2 table never holds two rows of one key; a set leaves for its key
\* the one row with the new value, the time of the set and the TTL of the
\* cache, whatever row the key had, and touches no other row; a get of a key
\* with an expired row deletes that row and returns nothing, and any other get
\* leaves the table as it is.
C17_L2UpsertAndExpiredDelete ==
    [][/\ \A k \in Keys : Cardinality(RowsOf(l2'.rows, k)) <= 1
       /\ last'.op = "l2set" =>
              /\ RowsOf(l2'.rows, last'.key) = {RowWritten(last'.key, last'.value)}
              /\ l2'.rows \ RowsOf(l2'.rows, last'.key)
                     = l2.rows \ RowsOf(l2.rows, last'.key)
       /\ last'.op = "l2get" =>
              IF \E r \in RowsOf(l2.rows, last'.key) : Expired(r, now)
              THEN /\ last'.ret = None
                   /\ l2'.rows = l2.rows \ RowsOf(l2.rows, last'.key)
              ELSE /\ l2'.rows = l2.rows
                   /\ \A r \in RowsOf(l2.rows, last'.key) :
                          last'.ret = JsonLoads(r.cache_value)
                   /\ RowsOf(l2.rows, last'.key) = {} => last'.ret = None]_vars

C17_Witness ==
    /\ last.op = "l2set"
    /\ last.src = "update"
    /\ now = MaxTime
    /\ l2.ttl_seconds = 0
    /\ \E r \in l2.rows : r.cache_key /= last.key /\ Expired(r, now)

\* C18: a row carries the TTL of the cache object that wrote it; opening the
\* same table with another TTL changes no row, and through a cache object of
\* any TTL a get returns the row before its own write time + its own TTL and
\* not from then on (never expiring when its own TTL is zero).
C18_L2TtlPerRow ==
    [][/\ last'.op = "l2set" =>
              \A r \in RowsOf(l2'.rows, last'.key) : r.ttl_seconds = l2.ttl_seconds
       /\ last'.op = "l2open" => l2'.rows = l2.rows
       /\ \A r \in l2'.rows, T \in 0..MaxTtl, t \in Later :
              SqliteGet(L2With(T)', r.cache_key, t).ret =
                  (IF r.ttl_seconds > 0 /\ t >= r.updated_at + r.ttl_seconds
                   THEN None ELSE JsonLoads(r.cache_value))]_vars

C18_Witness ==
    /\ last.op = "l2get"
    /\ last.src = "expired"
    /\ l2.ttl_seconds = 0

\* The values JSON has a form of its own for.
JsonValues == Values \cup {PyList, PyStr}

\* A step keeps the round trip of the values `values`: a set of one of them is
\* answered by get with that value at every time the row is not expired; a hit
\* returns what the row spells; a restart empties L1 and leaves every row and
\* every answer of L2 as it was; and no other step changes a row of another
\* key.
RoundTripStep(values) ==
    /\ (last'.op = "l2set" /\ last'.value \in values) =>
           \A t \in Later :
               ~Expired(RowWritten(last'.key, last'.value), t)
                   => SqliteGet(l2', last'.key, t).ret = last'.value
    /\ (last'.op = "l2get" /\ last'.src = "hit") =>
           /\ l2'.rows = l2.rows
           /\ \A r \in RowsOf(l2.rows, last'.key) : last'.ret = JsonLoads(r.cache_value)
    /\ last'.op = "restart" =>
           /\ l1'.data = <<>>
           /\ l2'.rows = l2.rows
           /\ \A k \in RestartKeys, t \in Later :
                  SqliteGet(l2', k, t) = SqliteGet(l2, k, t)
    /\ last'.op \in {"tick", "l1set"} => l2'.rows = l2.rows
    /\ last'.op \in {"l2set", "l2get"} =>
           \A k \in RestartKeys :
               k /= last'.key => RowsOf(l2'.rows, k) = RowsOf(l2.rows, k)

\* C19 as stated: L2 gives every value back unchanged while its row is not
\* expired, also after a restart, and L1 is empty after a restart.
C19_AsStated == [][RoundTripStep(PyValues)]_vars

\* C19, amended: L2 gives back unchanged, while its row is not expired and
\* also after a restart, every value that JSON represents (a search result,
\* a list, a string); a value json.dumps writes in another form comes back
\* as that form (a tuple as a list, a datetime as its str); L1 is empty after
\* a restart.
C19_L2DurableRoundTrip ==
    [][/\ RoundTripStep(JsonValues)
       /\ (last'.op = "l2set" /\ last'.value \in PyValues \ JsonValues) =>
              \A t \in Later :
                  ~Expired(RowWritten(last'.key, last'.value), t)
                      => SqliteGet(l2', last'.key, t).ret
                             = (IF last'.value = PyTuple THEN PyList ELSE PyStr)]_vars

C19_Witness ==
    /\ last.op = "restart"
    /\ last.src = "warm"
    /\ l1.data = <<>>
    /\ \E r \in l2.rows :
           /\ r.updated_at < now
           /\ SqliteGet(l2, r.cache_key, now).ret \in Values
    /\ \E r \in l2.rows : SqliteGet(l2, r.cache_key, now).ret = PyList

\* C20: after a composite set(key, value) L1 holds the value under the key, as
\* its most recently used entry, with the expiry instant now + the L1 TTL
\* (none under TTL 0), and L2, when there is one, holds for the key the one
\* row with the value, the time of the set and the L2 TTL, whatever either
\* layer held for the key before; a get on either layer returns the value.
C20_SetWritesThrough ==
    [][last'.op = "set" =>
        LET k == last'.key
            v == last'.value
        IN  /\ k \in KeysIn(l1'.data)
            /\ l1'.data[Len(l1'.data)] =
                   [key |-> k, value |-> v,
                    expires_at |-> IF l1.ttl_seconds > 0 THEN now + l1.ttl_seconds
                                   ELSE None]
            /\ LruGet(l1', k, now').ret = v
            /\ l2.enabled =>
                   /\ RowsOf(l2'.rows, k) = {RowWritten(k, v)}
                   /\ SqliteGet(l2', k, now').ret = v
            /\ ~l2.enabled => l2' = l2]_vars

C20_Witness ==
    /\ last.op = "set"
    /\ last.src = "held"
    /\ l2.enabled
    /\ l1.ttl_seconds /= l2.ttl_seconds
    /\ now = MaxTime
    /\ Len(l1.data) = 2

-----------------------------------------------------------------------------
(* The requests of search: each caller builds its filters dict and its      *)
(* keyword arguments entry by entry, and search derives the cache key.      *)

\* dict[name] = value on a dict kept as its pairs in insertion order.
DictSet(d, name, value) ==
    IF \E i \in 1..Len(d) : d[i][1] = name
    THEN [i \in 1..Len(d) |-> IF d[i][1] = name THEN <<name, value>> ELSE d[i]]
    ELSE Append(d, <<name, value>>)

FilterNames == {"patient_id", "encounter_id"}
FilterValues == {"p1", "p2"}
ExtraNames == {"agent_id", "run_id"}
ExtraValues == {"a1"}

NoRequest(query, filters) ==
    [query |-> query, filters |-> filters, extra |-> <<>>, cache_key |-> NoKey]

KeyInit ==
    /\ l1 = LruInit(1, 0)
    /\ l2 = SqliteInit(FALSE, 0)
    /\ now = 0
    /\ recency = <<>>
    /\ last = [op |-> "init", key |-> NoKey, value |-> None, ret |-> None,
               src |-> "", dirty |-> FALSE]
    /\ store = 0
    /\ pc = [t \in Threads |-> "idle"]
    /\ \E query \in [Threads -> {"q1", "q2"}],
          filters \in [Threads -> {NoFilters, <<>>}] :
           loc = [t \in Threads |-> NoRequest(query[t], filters[t])]
    /\ done = 0
    /\ NoGraph

\* The caller writes filters[name] = value (into a new dict when it had none).
PutFilter(t, name, value) ==
    /\ pc[t] = "idle"
    /\ loc' = [loc EXCEPT ![t].filters =
                   DictSet(IF @ = NoFilters THEN <<>> ELSE @, name, value)]
    /\ last' = Call("filter", NoKey, None, None, t)
    /\ UNCHANGED <<l1, l2, now, recency, store, pc, done, graph, nops>>

\* The caller passes one more keyword argument name=value.
PutExtra(t, name, value) ==
    /\ pc[t] = "idle"
    /\ \A i \in 1..Len(loc[t].extra) : loc[t].extra[i][1] /= name
    /\ loc' = [loc EXCEPT ![t].extra = DictSet(@, name, value)]
    /\ last' = Call("extra", NoKey, None, None, t)
    /\ UNCHANGED <<l1, l2, now, recency, store, pc, done, graph, nops>>

\* Mem0Backend.search: cache_key = _build_cache_key(...)
BuildKey(t) ==
    LET r == loc[t]
        cache_key == BuildCacheKey(r.query, "u1", DefaultLimit, r.filters, None, r.extra)
    IN  /\ pc[t] = "idle"
        /\ pc' = [pc EXCEPT ![t] = "keyed"]
        /\ loc' = [loc EXCEPT ![t].cache_key = cache_key]
        /\ last' = Call("key", cache_key, None, None, t)
        /\ UNCHANGED <<l1, l2, now, recency, store, done, graph, nops>>

KeyNext ==
    \/ \E t \in Threads, name \in FilterNames, value \in FilterValues :
           PutFilter(t, name, value)
    \/ \E t \in Threads, name \in ExtraNames, value \in ExtraValues :
           PutExtra(t, name, value)
    \/ \E t \in Threads : BuildKey(t)

SpecKey == KeyInit /\ [][KeyNext]_vars

-----------------------------------------------------------------------------
(* The two stores side by side. Both send the same Cypher text; the Kuzu    *)
(* store has the typed tables of its _init_schema (Patient.date_of_birth is *)
(* a DATE column), the Neo4j store has uniqueness constraints only and      *)
(* keeps whatever value a property is given. Rows are compared as the       *)
(* engines yield them, before the client library turns them into dicts.     *)

\* The texts Kuzu's cast of a STRING to DATE accepts (YYYY-MM-DD).
DateTexts == {"1980-01-01"}

\* PatientProfile.date_of_birth is Optional[str]: any text or None.
PairProfiles ==
    Profiles \cup {[patient_id |-> p, name |-> "Ann", date_of_birth |-> "1980", sex |-> "F"] :
                       p \in PatientIds}

\* SET p.date_of_birth = $date_of_birth on a DATE column: the statement
\* raises, and writes nothing, when the text is not a date.
KuzuAddPatient(g, profile) ==
    IF profile.date_of_birth = NoId \/ profile.date_of_birth \in DateTexts
    THEN AddPatient(g, profile)
    ELSE g

Neo4jAddPatient(g, profile) == AddPatient(g, profile)
Neo4jAddEncounter(g, encounter) == AddEncounter(g, encounter)
Neo4jAddObservation(g, observation) == AddObservation(g, observation)
Neo4jAddMedication(g, medication) == AddMedication(g, medication)
Neo4jAddDocument(g, document) == AddDocument(g, document)

PairInit ==
    /\ graph = [kuzu |-> EmptyGraph, neo4j |-> EmptyGraph]
    /\ nops = 0
    /\ l1 = LruInit(1, 0)
    /\ l2 = SqliteInit(FALSE, 0)
    /\ Rest

PairAddPatient(profile) ==
    /\ nops < MaxOps
    /\ graph' = [kuzu |-> KuzuAddPatient(graph.kuzu, profile),
                 neo4j |-> Neo4jAddPatient(graph.neo4j, profile)]
    /\ nops' = nops + 1
    /\ UNCHANGED <<l1, l2, now, recency, last, store, pc, loc, done>>

PairAddEncounter(encounter) ==
    /\ nops < MaxOps
    /\ graph' = [kuzu |-> AddEncounter(graph.kuzu, encounter),
                 neo4j |-> Neo4jAddEncounter(graph.neo4j, encounter)]
    /\ nops' = nops + 1
    /\ UNCHANGED <<l1, l2, now, recency, last, store, pc, loc, done>>

PairAddObservation(observation) ==
    /\ nops < MaxOps
    /\ graph' = [kuzu |-> AddObservation(graph.kuzu, observation),
                 neo4j |-> Neo4jAddObservation(graph.neo4j, observation)]
    /\ nops' = nops + 1
    /\ UNCHANGED <<l1, l2, now, recency, last, store, pc, loc, done>>

PairAddMedication(medication) ==
    /\ nops < MaxOps
    /\ graph' = [kuzu |-> AddMedication(graph.kuzu, medication),
                 neo4j |-> Neo4jAddMedication(graph.neo4j, medication)]
    /\ nops' = nops + 1
    /\ UNCHANGED <<l1, l2, now, recency, last, store, pc, loc, done>>

PairAddDocument(document) ==
    /\ nops < MaxOps
    /\ graph' = [kuzu |-> AddDocument(graph.kuzu, document),
                 neo4j |-> Neo4jAddDocument(graph.neo4j, document)]
    /\ nops' = nops + 1
    /\ UNCHANGED <<l1, l2, now, recency, last, store, pc, loc, done>>

PairNext ==
    \/ \E profile \in PairProfiles : PairAddPatient(profile)
    \/ \E encounter \in Encounters : PairAddEncounter(encounter)
    \/ \E observation \in Observations : PairAddObservation(observation)
    \/ \E medication \in Medications : PairAddMedication(medication)
    \/ \E document \in Documents : PairAddDocument(document)

SpecPair == PairInit /\ [][PairNext]_vars

-----------------------------------------------------------------------------
(* Configuration: load_graph_config reads the environment, get_graph_store  *)
(* builds the store it names. loc holds the environment of the process      *)
(* (NoId for a variable that is not set) and the libraries it has, graph    *)
(* what the last get_graph_store gave.                                      *)

EnvValues ==
    [JKMEM_GRAPH_PROVIDER |-> {NoId, "kuzu", "neo4j", "memgraph"},
     JKMEM_GRAPH_ENABLED |-> {NoId, "1", "0"},
     JKMEM_NEO4J_URL |-> {NoId, "", "bolt://db"},
     JKMEM_NEO4J_USERNAME |-> {NoId, "", "neo4j"},
     JKMEM_NEO4J_PASSWORD |-> {NoId, "", "secret"},
     JKMEM_NEO4J_MAX_POOL |-> {NoId, "ten"}]

\* os.getenv(name, default)
Getenv(env, name, default) == IF env[name] = NoId THEN default ELSE env[name]

\* load_graph_config: int() of a text that is no number raises ValueError.
LoadGraphConfig(env) ==
    IF Getenv(env, "JKMEM_NEO4J_MAX_POOL", "10") /= "10"
    THEN [error |-> "ValueError"]
    ELSE [error |-> "",
          provider |-> Getenv(env, "JKMEM_GRAPH_PROVIDER", "kuzu"),
          enabled |-> Getenv(env, "JKMEM_GRAPH_ENABLED", "1") = "1",
          neo4j_url |-> env.JKMEM_NEO4J_URL,
          neo4j_username |-> env.JKMEM_NEO4J_USERNAME,
          neo4j_password |-> env.JKMEM_NEO4J_PASSWORD]

\* What get_graph_store gives: the store it returns (NoId for None) or the
\* error it raises, and whether GraphDatabase.driver was called.
Outcome(obj, error, driver) == [store |-> obj, error |-> error, driver |-> driver]

\* KuzuGraphStore.__init__ / Neo4jGraphStore.__init__: the import may fail.
NewKuzuGraphStore(libs) ==
    IF "kuzu" \in libs THEN Outcome("kuzu", "", FALSE)
    ELSE Outcome(NoId, "RuntimeError", FALSE)

NewNeo4jGraphStore(libs) ==
    IF "neo4j" \in libs THEN Outcome("neo4j", "", TRUE)
    ELSE Outcome(NoId, "RuntimeError", FALSE)

\* A get_graph_store that leaves the settings to the driver.
GetGraphStoreUnchecked(env, libs) ==
    LET config == LoadGraphConfig(env)
    IN  IF config.error /= "" THEN Outcome(NoId, config.error, FALSE)
        ELSE IF ~config.enabled THEN Outcome(NoId, "", FALSE)
        ELSE IF config.provider = "kuzu" THEN NewKuzuGraphStore(libs)
        ELSE IF config.provider = "neo4j" THEN NewNeo4jGraphStore(libs)
        ELSE Outcome(NoId, "RuntimeError", FALSE)

\* get_graph_store
GetGraphStore(env, libs) ==
    LET config == LoadGraphConfig(env)
    IN  IF config.error /= "" THEN Outcome(NoId, config.error, FALSE)
        ELSE IF ~config.enabled THEN Outcome(NoId, "", FALSE)
        ELSE IF config.provider = "kuzu" THEN NewKuzuGraphStore(libs)
        ELSE IF config.provider = "neo4j"
             THEN IF \/ ~Truthy(config.neo4j_url)
                     \/ ~Truthy(config.neo4j_username)
                     \/ ~Truthy(config.neo4j_password)
                  THEN Outcome(NoId, "RuntimeError", FALSE)
                  ELSE NewNeo4jGraphStore(libs)
        ELSE Outcome(NoId, "RuntimeError", FALSE)

ConfigInit ==
    /\ loc = [env |-> [name \in DOMAIN EnvValues |-> NoId], libs |-> {"kuzu", "neo4j"}]
    /\ graph = Outcome(NoId, "", FALSE)
    /\ nops = 0
    /\ l1 = LruInit(1, 0)
    /\ l2 = SqliteInit(FALSE, 0)
    /\ now = 0
    /\ recency = <<>>
    /\ last = [op |-> "init", key |-> NoKey, value |-> None, ret |-> None,
               src |-> "", dirty |-> FALSE]
    /\ store = 0
    /\ pc = [t \in Threads |-> "idle"]
    /\ done = 0

\* The environment is set before the process asks for its store.
Setenv(name, value) ==
    /\ last.op = "init"
    /\ loc' = [loc EXCEPT !.env[name] = value]
    /\ UNCHANGED <<l1, l2, now, recency, last, store, pc, done, graph, nops>>

Uninstall(lib) ==
    /\ last.op = "init"
    /\ lib \in loc.libs
    /\ loc' = [loc EXCEPT !.libs = @ \ {lib}]
    /\ UNCHANGED <<l1, l2, now, recency, last, store, pc, done, graph, nops>>

GetGraphStoreCall ==
    LET out == GetGraphStore(loc.env, loc.libs)
    IN  /\ last.op = "init"
        /\ graph' = out
        /\ last' = Call("get_graph_store", NoKey, None, None,
                        IF out.error /= "" THEN "raised" ELSE "returned")
        /\ UNCHANGED <<l1, l2, now, recency, store, pc, loc, done, nops>>

ConfigNext ==
    \/ \E name \in DOMAIN EnvValues : \E value \in EnvValues[name] : Setenv(name, value)
    \/ \E lib \in {"kuzu", "neo4j"} : Uninstall(lib)
    \/ GetGraphStoreCall

SpecConfig == ConfigInit /\ [][ConfigNext]_vars

-----------------------------------------------------------------------------
(* A SqliteCache opened on a file that exists: CREATE TABLE IF NOT EXISTS   *)
(* keeps the rows the file holds, and cache_value is any text.              *)

\* A text json.loads cannot decode.
Truncated == <<"{\"results\": [", 0>>

\* The texts json.loads decodes.
IsJson(text) ==
    text[1] \in {"null", "[1]", "\"2024-01-01 00:00:00\"", "{\"results\": ...}"}

FileRows ==
    {{}} \cup {{[cache_key |-> KeyOf("q1"), cache_value |-> text,
                 updated_at |-> 0, ttl_seconds |-> ttl]} :
                   text \in {Truncated, JsonDumps(1)}, ttl \in {0, 1}}

DecodeInit ==
    /\ l1 = LruInit(1, 0)
    /\ \E ttl \in TtlChoices, rows \in FileRows :
           l2 = [SqliteInit(TRUE, ttl) EXCEPT !.rows = rows]
    /\ Rest
    /\ NoGraph

SpecDecode == DecodeInit /\ [][L2Next]_vars

-----------------------------------------------------------------------------
(* The graph store with its read queries: a read is MATCH ... RETURN and    *)
(* writes nothing; its result is a function of the graph.                   *)

DoGetActiveMedications(patient_id) ==
    /\ nops < MaxOps
    /\ nops' = nops + 1
    /\ UNCHANGED <<l1, l2, now, recency, last, store, pc, loc, done, graph>>

DoGetEncounterRecord(encounter_id) ==
    /\ nops < MaxOps
    /\ nops' = nops + 1
    /\ UNCHANGED <<l1, l2, now, recency, last, store, pc, loc, done, graph>>

DoGetPatientTimeline(patient_id, limit) ==
    /\ nops < MaxOps
    /\ nops' = nops + 1
    /\ UNCHANGED <<l1, l2, now, recency, last, store, pc, loc, done, graph>>

DoGetMedicationPairs(patient_id) ==
    /\ nops < MaxOps
    /\ nops' = nops + 1
    /\ UNCHANGED <<l1, l2, now, recency, last, store, pc, loc, done, graph>>

LifeNext ==
    \/ \E profile \in Profiles : DoAddPatient(profile)
    \/ \E encounter \in Encounters : DoAddEncounter(encounter)
    \/ \E observation \in Observations : DoAddObservation(observation)
    \/ \E medication \in Medications : DoAddMedication(medication)
    \/ \E document \in Documents : DoAddDocument(document)
    \/ \E patient_id \in PatientIds : DoGetActiveMedications(patient_id)
    \/ \E encounter_id \in EncounterIds : DoGetEncounterRecord(encounter_id)
    \/ \E patient_id \in PatientIds, limit \in Limits : DoGetPatientTimeline(patient_id, limit)
    \/ \E patient_id \in PatientIds : DoGetMedicationPairs(patient_id)

SpecLife == GraphInit /\ [][LifeNext]_vars

-----------------------------------------------------------------------------
(* Opening a store: __init__ runs _init_schema on the database at the path, *)
(* new or not. A database is its tables (here none, some or all of them),   *)
(* each the bag of its rows.                                                *)

AllTables == {nt[1] : nt \in NodeTables} \cup {rt[1] : rt \in RelTables}
NoTables == [t \in {} |-> EmptyBag]

\* Schema statements without IF NOT EXISTS: the first table that exists
\* makes its statement raise.
InitSchemaCreate(db) ==
    IF DOMAIN db /= {} THEN [db |-> db, error |-> "RuntimeError"]
    ELSE [db |-> [t \in AllTables |-> EmptyBag], error |-> ""]

\* _init_schema: CREATE NODE TABLE IF NOT EXISTS / CREATE REL TABLE IF NOT
\* EXISTS for each table.
InitSchema(db) ==
    [db |-> [t \in AllTables |-> IF t \in DOMAIN db THEN db[t] ELSE EmptyBag],
     error |-> ""]

Size(db) ==
    LET RECURSIVE Sum(_)
        Sum(S) == IF S = {} THEN 0
                  ELSE LET t == CHOOSE x \in S : TRUE
                       IN  BagCardinality(db[t]) + Sum(S \ {t})
    IN  Sum(DOMAIN db)

SchemaInit ==
    /\ graph \in {NoTables, [t \in {nt[1] : nt \in NodeTables} |-> EmptyBag]}
    /\ nops = 0
    /\ l1 = LruInit(1, 0)
    /\ l2 = SqliteInit(FALSE, 0)
    /\ Rest

\* KuzuGraphStore(path): last.ret is the number of rows the database held.
Open ==
    LET s == InitSchema(graph)
    IN  /\ graph' = s.db
        /\ last' = Call("open", NoKey, None, Size(graph),
                        IF s.error = "" THEN "ok" ELSE "raised")
        /\ UNCHANGED <<l1, l2, now, recency, store, pc, loc, done, nops>>

SchemaNext ==
    \/ Open
    \/ /\ last.op = "open" /\ last.src = "ok"
       /\ GraphNext

SpecSchema == SchemaInit /\ [][SchemaNext]_vars

-----------------------------------------------------------------------------
(* InMemoryBackend and MemoryAgent. store is the backend's list of entries, *)
(* each a dict with the keys user_id, memory and those of the metadata      *)
(* (patient_id here, NoId where the dict has no such key); last is the last *)
(* call with what it returned.                                              *)

\* str.lower()
Lower(s) ==
    CASE s = "Hello" -> "hello"
      [] s = "Remember this" -> "remember this"
      [] OTHER -> s

\* needle in hay
Contains(hay, needle) ==
    \/ needle = ""
    \/ hay = needle
    \/ hay = "remember this" /\ needle = "remember"

\* metadata: None or a dict; filters: None or a dict.
NoDict == [k \in {} |-> NoId]
Metadatas == {NoDict} \cup {[k \in {"patient_id"} |-> p] : p \in {"patient_1", "other"}}

\* entry.update(metadata)
DictUpdate(entry, metadata) ==
    [k \in DOMAIN entry \cup DOMAIN metadata |->
        IF k \in DOMAIN metadata THEN metadata[k] ELSE entry[k]]

\* The role and content of each message, assistant messages only, content
\* not empty: the entries add appends.
RECURSIVE NewEntries(_, _, _)
NewEntries(messages, user_id, metadata) ==
    IF messages = <<>> THEN <<>>
    ELSE LET msg == Head(messages)
             entry == [user_id |-> user_id, memory |-> msg.content, patient_id |-> NoId]
             rest == NewEntries(Tail(messages), user_id, metadata)
         IN  IF msg.role = "assistant" /\ msg.content /= ""
             THEN <<IF DOMAIN metadata /= {} THEN DictUpdate(entry, metadata) ELSE entry>> \o rest
             ELSE rest

\* InMemoryBackend.add
InMemoryAdd(entries, messages, user_id, metadata) ==
    entries \o NewEntries(messages, user_id, metadata)

Reverse(s) == [i \in 1..Len(s) |-> s[Len(s) + 1 - i]]
InSeq(e, s) == \E i \in 1..Len(s) : s[i] = e

\* for entry in reversed(user_entries): if entry not in matches: append,
\* until there are `limit` of them.
RECURSIVE FillRecent(_, _, _)
FillRecent(matches, recent, limit) ==
    IF recent = <<>> THEN matches
    ELSE IF InSeq(Head(recent), matches) THEN FillRecent(matches, Tail(recent), limit)
    ELSE LET more == Append(matches, Head(recent))
         IN  IF Len(more) >= limit THEN more ELSE FillRecent(more, Tail(recent), limit)

Passes(entry, filters) == \A key \in DOMAIN filters : entry[key] = filters[key]

\* A search whose fill-up takes recent entries that pass the filters only.
InMemorySearchFiltered(entries, query, user_id, limit, filters) ==
    LET query_lower == Lower(query)
        user_entries == SelectSeq(entries, LAMBDA e : e.user_id = user_id /\ Passes(e, filters))
        found == SelectSeq(user_entries, LAMBDA e : Contains(Lower(e.memory), query_lower))
        matches == IF Len(found) < limit
                   THEN FillRecent(found, Reverse(user_entries), limit)
                   ELSE found
    IN  SubSeq(matches, 1, Min(limit, Len(matches)))

\* What if: the search looked at the entries of every user.
InMemorySearchAnyUser(entries, query, user_id, limit, filters) ==
    LET query_lower == Lower(query)
        found == SelectSeq(entries,
                     LAMBDA e : Passes(e, filters) /\ Contains(Lower(e.memory), query_lower))
        matches == IF Len(found) < limit
                   THEN FillRecent(found, Reverse(entries), limit)
                   ELSE found
    IN  SubSeq(matches, 1, Min(limit, Len(matches)))

\* InMemoryBackend.search: the list under "results".
InMemorySearch(entries, query, user_id, limit, filters) ==
    LET query_lower == Lower(query)
        user_entries == SelectSeq(entries, LAMBDA e : e.user_id = user_id)
        found == SelectSeq(user_entries,
                     LAMBDA e : Passes(e, filters) /\ Contains(Lower(e.memory), query_lower))
        matches == IF Len(found) < limit
                   THEN FillRecent(found, Reverse(user_entries), limit)
                   ELSE found
    IN  SubSeq(matches, 1, Min(limit, Len(matches)))

\* MemoryAgent.respond with the reply the LLM function gives: the new
\* entries and the returned value.
AgentRespond(entries, message, user_id, metadata, filters, response) ==
    LET memories == InMemorySearch(entries, message, user_id, DefaultLimit, filters)
    IN  [entries |-> InMemoryAdd(entries,
                        <<[role |-> "user", content |-> message],
                          [role |-> "assistant", content |-> response]>>,
                        user_id, metadata),
         ret |-> [content |-> response, memories |-> memories]]

UserIds == {"user_1", "user_2"}
Contents == {"Remember this", "ok", ""}
SearchTexts == {"remember", "ok", "Hello"}

MemoryInit ==
    /\ store = <<>>
    /\ last = [op |-> "init"]
    /\ l1 = LruInit(1, 0)
    /\ l2 = SqliteInit(FALSE, 0)
    /\ now = 0
    /\ recency = <<>>
    /\ IdleRest
    /\ NoGraph

MemoryAdd(content, user_id, metadata) ==
    /\ Len(store) < MaxEntries
    /\ store' = InMemoryAdd(store, <<[role |-> "user", content |-> "Hi"],
                                     [role |-> "assistant", content |-> content]>>,
                            user_id, metadata)
    /\ last' = [op |-> "add", user_id |-> user_id, content |-> content]
    /\ UNCHANGED <<l1, l2, now, recency, pc, loc, done, graph, nops>>

MemorySearchCall(query, user_id, limit, filters) ==
    /\ last' = [op |-> "search", query |-> query, user_id |-> user_id, limit |-> limit,
                filters |-> filters,
                results |-> InMemorySearch(store, query, user_id, limit, filters)]
    /\ UNCHANGED <<l1, l2, now, recency, store, pc, loc, done, graph, nops>>

Respond(message, user_id, metadata, response) ==
    LET r == AgentRespond(store, message, user_id, metadata, NoDict, response)
    IN  /\ Len(store) < MaxEntries
        /\ store' = r.entries
        /\ last' = [op |-> "respond", message |-> message, user_id |-> user_id,
                    response |-> response, ret |-> r.ret]
        /\ UNCHANGED <<l1, l2, now, recency, pc, loc, done, graph, nops>>

MemoryNext ==
    \/ \E content \in Contents, user_id \in UserIds, metadata \in Metadatas :
           MemoryAdd(content, user_id, metadata)
    \/ \E query \in SearchTexts, user_id \in UserIds, limit \in {1, DefaultLimit},
          filters \in Metadatas : MemorySearchCall(query, user_id, limit, filters)
    \/ \E message \in {"Hello"}, user_id \in UserIds, metadata \in Metadatas,
          response \in Contents : Respond(message, user_id, metadata, response)

SpecMemory == MemoryInit /\ [][MemoryNext]_vars

-----------------------------------------------------------------------------
(* MultiLevelCache called by several threads: get, set and clear hold no    *)
(* lock of their own, so each step is one lock-protected call on a layer.   *)
(* last.op is "clear" when a clear has run from its call to its return with *)
(* no set writing a layer meanwhile, and no set has written a layer since.  *)

TierValues == {1, 2}
NoCall == [op |-> "", key |-> NoKey, value |-> None]

TierReturned(t, op, key, value) ==
    /\ pc' = [pc EXCEPT ![t] = "idle"]
    /\ loc' = [loc EXCEPT ![t] = [op |-> op, key |-> key, value |-> value]]

\* MultiLevelCache.get up to self._l1.get(key)
TierGet(t, key) ==
    LET g == LruGet(l1, key, now)
    IN  /\ pc[t] = "idle"
        /\ l1' = [l1 EXCEPT !.data = g.data]
        /\ IF g.ret /= None \/ ~l2.enabled
           THEN TierReturned(t, "get", key, g.ret)
           ELSE /\ pc' = [pc EXCEPT ![t] = "l2get"]
                /\ loc' = [loc EXCEPT ![t] = [op |-> "get", key |-> key, value |-> None]]
        /\ UNCHANGED <<l2, now, recency, last, store, done, graph, nops>>

\* MultiLevelCache.get: value = self._l2.get(key)
TierL2Get(t) ==
    LET g == SqliteGet(l2, loc[t].key, now)
    IN  /\ pc[t] = "l2get"
        /\ l2' = [l2 EXCEPT !.rows = g.rows]
        /\ IF g.ret /= None
           THEN /\ pc' = [pc EXCEPT ![t] = "promote"]
                /\ loc' = [loc EXCEPT ![t].value = g.ret]
           ELSE TierReturned(t, "get", loc[t].key, None)
        /\ UNCHANGED <<l1, now, recency, last, store, done, graph, nops>>

\* MultiLevelCache.get: self._l1.set(key, value), then the value is returned.
TierPromote(t) ==
    /\ pc[t] = "promote"
    /\ l1' = [l1 EXCEPT !.data = LruSet(l1, loc[t].key, loc[t].value, now)]
    /\ TierReturned(t, "get", loc[t].key, loc[t].value)
    /\ UNCHANGED <<l2, now, recency, last, store, done, graph, nops>>

\* MultiLevelCache.set up to self._l1.set(key, value)
TierSet(t, key, value) ==
    /\ pc[t] = "idle"
    /\ l1' = [l1 EXCEPT !.data = LruSet(l1, key, value, now)]
    /\ IF l2.enabled
       THEN /\ pc' = [pc EXCEPT ![t] = "l2set"]
            /\ loc' = [loc EXCEPT ![t] = [op |-> "set", key |-> key, value |-> value]]
       ELSE TierReturned(t, "set", key, value)
    /\ last' = [op |-> "set"]
    /\ UNCHANGED <<l2, now, recency, store, done, graph, nops>>

\* MultiLevelCache.set: self._l2.set(key, value), then set returns.
TierL2Set(t) ==
    /\ pc[t] = "l2set"
    /\ l2' = [l2 EXCEPT !.rows = SqliteSet(l2, loc[t].key, loc[t].value, now)]
    /\ TierReturned(t, "set", loc[t].key, loc[t].value)
    /\ last' = [op |-> "set"]
    /\ UNCHANGED <<l1, now, recency, store, done, graph, nops>>

\* MultiLevelCache.clear up to self._l1.clear()
TierClear(t) ==
    /\ pc[t] = "idle"
    /\ l1' = [l1 EXCEPT !.data = LruClear(l1)]
    /\ IF l2.enabled
       THEN /\ pc' = [pc EXCEPT ![t] = "l2clear"]
            /\ loc' = [loc EXCEPT ![t] = [op |-> "clear", key |-> NoKey, value |-> None]]
            /\ last' = [op |-> "clearing"]
       ELSE /\ TierReturned(t, "clear", NoKey, None)
            /\ last' = [op |-> "clear"]
    /\ UNCHANGED <<l2, now, recency, store, done, graph, nops>>

\* MultiLevelCache.clear: self._l2.clear(), then clear returns.
TierL2Clear(t) ==
    /\ pc[t] = "l2clear"
    /\ l2' = [l2 EXCEPT !.rows = SqliteClear(l2)]
    /\ TierReturned(t, "clear", NoKey, None)
    /\ last' = IF last.op = "clearing" THEN [op |-> "clear"] ELSE last
    /\ UNCHANGED <<l1, now, recency, store, done, graph, nops>>

TierNext ==
    \E t \in Threads :
        \/ \E key \in RestartKeys : TierGet(t, key)
        \/ TierL2Get(t)
        \/ TierPromote(t)
        \/ \E key \in RestartKeys, value \in TierValues : TierSet(t, key, value)
        \/ TierL2Set(t)
        \/ TierClear(t)
        \/ TierL2Clear(t)

\* No time passes in these runs: one positive TTL stands for all.
TierInit ==
    /\ \E capacity \in 1..MaxCapacity : l1 = LruInit(capacity, 1)
    /\ \E enabled \in BOOLEAN : l2 = SqliteInit(enabled, 1)
    /\ now = 0
    /\ recency = <<>>
    /\ last = [op |-> "init"]
    /\ store = 0
    /\ pc = [t \in Threads |-> "idle"]
    /\ loc = [t \in Threads |-> NoCall]
    /\ done = 0
    /\ NoGraph

SpecTier == TierInit /\ [][TierNext]_vars

-----------------------------------------------------------------------------
(* MultiLevelCache over time, with both TTLs positive and one clock. store  *)
(* is history: for each key the time and the value of its latest set.       *)

PositiveTtls == 1..(MaxTtl + 1)
NeverSet == [at |-> None, value |-> None]

TtlInit ==
    /\ \E capacity \in 1..MaxCapacity, ttl \in PositiveTtls : l1 = LruInit(capacity, ttl)
    /\ \E ttl \in PositiveTtls : l2 = SqliteInit(TRUE, ttl)
    /\ now = 0
    /\ recency = <<>>
    /\ last = [op |-> "init", key |-> NoKey, value |-> None, ret |-> None, src |-> ""]
    /\ store = [key \in RestartKeys |-> NeverSet]
    /\ IdleRest
    /\ NoGraph

\* The clock moves on.
TtlTick ==
    /\ now < MaxClock
    /\ now' = now + 1
    /\ last' = [op |-> "tick", key |-> NoKey, value |-> None, ret |-> None, src |-> ""]
    /\ UNCHANGED <<l1, l2, recency, store, pc, loc, done, graph, nops>>

\* MultiLevelCache.set(key, value)
TtlSet(key, value) ==
    LET s == MultiLevelSet(l1, l2, key, value, now)
    IN  /\ l1' = [l1 EXCEPT !.data = s.data]
        /\ l2' = [l2 EXCEPT !.rows = s.rows]
        /\ store' = [store EXCEPT ![key] = [at |-> now, value |-> value]]
        /\ last' = [op |-> "set", key |-> key, value |-> value, ret |-> None, src |-> ""]
        /\ UNCHANGED <<now, recency, pc, loc, done, graph, nops>>

\* MultiLevelCache.get(key); src is the layer that served it.
TtlGet(key) ==
    LET g == MultiLevelGet(l1, l2, key, now)
        src == IF LruGet(l1, key, now).ret /= None THEN "l1"
               ELSE IF g.ret /= None THEN "l2" ELSE "miss"
    IN  /\ l1' = [l1 EXCEPT !.data = g.data]
        /\ l2' = [l2 EXCEPT !.rows = g.rows]
        /\ last' = [op |-> "get", key |-> key, value |-> None, ret |-> g.ret, src |-> src]
        /\ UNCHANGED <<now, recency, store, pc, loc, done, graph, nops>>

TtlNext ==
    \/ TtlTick
    \/ \E key \in RestartKeys, value \in TierValues : TtlSet(key, value)
    \/ \E key \in RestartKeys : TtlGet(key)

SpecTtl == TtlInit /\ [][TtlNext]_vars

-----------------------------------------------------------------------------
(* ConsultationService over a graph store and a memory backend: store is    *)
(* the backend's list of entries, of which user_id, memory and patient_id   *)
(* are kept; last is the latest log_consultation call and the Patient nodes *)
(* it found for its patient.                                                *)

\* PatientProfile(patient_id=patient_id): every other field at its default.
BareProfile(patient_id) ==
    [patient_id |-> patient_id, name |-> NoId, date_of_birth |-> NoId, sex |-> NoId]

\* Encounter(...) as log_consultation builds it: metadata.created_at is unset.
ConsultEncounter(patient_id, encounter_id, encounter_type, start_time, end_time) ==
    [encounter_id |-> encounter_id, patient_id |-> patient_id,
     encounter_type |-> encounter_type, start_time |-> start_time,
     end_time |-> end_time, created_at |-> None]

\* What if: the encounter were written before the patient.
LogConsultationGraphEncounterFirst(g, patient_id, encounter) ==
    AddPatient(AddEncounter(g, encounter), BareProfile(patient_id))

\* log_consultation, the graph part: add_patient(profile), add_encounter(encounter).
LogConsultationGraph(g, patient_id, encounter) ==
    AddEncounter(AddPatient(g, BareProfile(patient_id)), encounter)

\* log_consultation, the memory part: the summary when there is one, else the messages.
LogConsultationMemory(entries, user_id, patient_id, messages, summary) ==
    InMemoryAdd(entries,
                IF summary /= NoId /\ summary /= ""
                THEN <<[role |-> "assistant", content |-> summary]>>
                ELSE messages,
                user_id, [k \in {"patient_id"} |-> patient_id])

ConsultInit ==
    /\ graph = EmptyGraph
    /\ nops = 0
    /\ store = <<>>
    /\ last = [op |-> "init"]
    /\ l1 = LruInit(1, 0)
    /\ l2 = SqliteInit(FALSE, 0)
    /\ now = 0
    /\ recency = <<>>
    /\ IdleRest

DoLogConsultation(user_id, patient_id, encounter_id, start_time, summary) ==
    LET encounter == ConsultEncounter(patient_id, encounter_id, "consultation",
                                      start_time, None)
    IN  /\ nops < MaxOps
        /\ graph' = LogConsultationGraph(graph, patient_id, encounter)
        /\ store' = LogConsultationMemory(store, user_id, patient_id,
                        <<[role |-> "user", content |-> "Hi"],
                          [role |-> "assistant", content |-> "Remember this"]>>,
                        summary)
        /\ nops' = nops + 1
        /\ last' = [op |-> "log_consultation", n |-> nops + 1, patient_id |-> patient_id,
                    encounter |-> encounter,
                    found |-> {n \in BagToSet(graph.Patient) : n.patient_id = patient_id}]
        /\ UNCHANGED <<l1, l2, now, recency, pc, loc, done>>

ConsultNext ==
    \/ \E profile \in Profiles : DoAddPatient(profile)
    \/ \E encounter \in Encounters : DoAddEncounter(encounter)
    \/ \E patient_id \in PatientIds, encounter_id \in EncounterIds, summary \in {NoId, "ok"} :
           DoLogConsultation("user_1", patient_id, encounter_id, T1, summary)

SpecConsult == ConsultInit /\ [][ConsultNext]_vars

-----------------------------------------------------------------------------
(* The add operations statement by statement: _exec / _execute runs each    *)
(* statement of an add once and has no handler, so a statement that raises  *)
(* ends the call. last is the latest such call: its argument, how many of   *)
(* its statements were executed and whether it raised.                      *)

\* The graphs after each statement add_encounter executes.
EncounterStatements(g, encounter) ==
    LET g1 == [g EXCEPT !.Encounter = MergeNode(@, "encounter_id",
                                            EncounterNode(encounter))]
    IN  <<g1,
          [g1 EXCEPT !.HAS_ENCOUNTER = MergeRel(@,
              HasNode(g1.Patient, "patient_id", encounter.patient_id),
              HasNode(g1.Encounter, "encounter_id", encounter.encounter_id),
              [from |-> encounter.patient_id, to |-> encounter.encounter_id,
               created_at |-> OrElse(encounter.created_at, encounter.start_time)])]>>

\* The graphs after each statement add_observation executes.
ObservationStatements(g, observation) ==
    LET g1 == [g EXCEPT !.Observation = MergeNode(@, "observation_id",
                                              ObservationNode(observation))]
    IN  IF Truthy(observation.encounter_id)
        THEN <<g1,
               [g1 EXCEPT !.HAS_OBSERVATION = MergeRel(@,
                   HasNode(g1.Encounter, "encounter_id", observation.encounter_id),
                   HasNode(g1.Observation, "observation_id", observation.observation_id),
                   [from |-> observation.encounter_id,
                    to |-> observation.observation_id])]>>
        ELSE <<g1>>

\* The graphs after each statement add_medication executes.
MedicationStatements(g, medication) ==
    LET g1 == [g EXCEPT !.Medication = MergeNode(@, "medication_id",
                                             MedicationNode(medication))]
        g2 == [g1 EXCEPT !.HAS_MEDICATION = MergeRel(@,
                  HasNode(g1.Encounter, "encounter_id", medication.encounter_id),
                  HasNode(g1.Medication, "medication_id", medication.medication_id),
                  [from |-> medication.encounter_id, to |-> medication.medication_id])]
        takes(h) == [h EXCEPT !.TAKES_MEDICATION = MergeRel(@,
                        HasNode(h.Patient, "patient_id", medication.patient_id),
                        HasNode(h.Medication, "medication_id", medication.medication_id),
                        [from |-> medication.patient_id, to |-> medication.medication_id,
                         prescribed_at |-> OrElse(medication.start_date,
                                                  medication.created_at),
                         indication |-> medication.indication])]
    IN  IF Truthy(medication.encounter_id) THEN <<g1, g2, takes(g2)>>
        ELSE <<g1, takes(g1)>>

\* The graphs after each statement add_document executes.
DocumentStatements(g, document) ==
    LET g1 == [g EXCEPT !.Document = MergeNode(@, "document_id",
                                           DocumentNode(document))]
    IN  IF Truthy(document.encounter_id)
        THEN <<g1,
               [g1 EXCEPT !.HAS_DOCUMENT = MergeRel(@,
                   HasNode(g1.Encounter, "encounter_id", document.encounter_id),
                   HasNode(g1.Document, "document_id", document.document_id),
                   [from |-> document.encounter_id, to |-> document.document_id])]>>
        ELSE <<g1,
               [g1 EXCEPT !.HAS_DOCUMENT_DIRECT = MergeRel(@,
                   HasNode(g1.Patient, "patient_id", document.patient_id),
                   HasNode(g1.Document, "document_id", document.document_id),
                   [from |-> document.patient_id, to |-> document.document_id])]>>

\* What if: the statements of a call were one transaction, undone by a raise.
ExecutedAtomically(g, statements, k) ==
    IF k < Len(statements) THEN g ELSE statements[k]

\* The graph when the first k statements of a call have been executed.
Executed(g, statements, k) ==
    IF k = 0 THEN g ELSE statements[k]

\* An add call of which k statements are executed: the next one, if any, raises.
TryAdd(op, arg, statements, k) ==
    /\ nops < MaxOps
    /\ k <= Len(statements)
    /\ graph' = Executed(graph, statements, k)
    /\ nops' = nops + 1
    /\ last' = [op |-> op, arg |-> arg, executed |-> k, n |-> nops + 1,
                raised |-> k < Len(statements)]
    /\ UNCHANGED <<l1, l2, now, recency, store, pc, loc, done>>

TryAddEncounter(encounter, k) ==
    TryAdd("add_encounter", encounter, EncounterStatements(graph, encounter), k)

TryAddObservation(observation, k) ==
    TryAdd("add_observation", observation, ObservationStatements(graph, observation), k)

TryAddMedication(medication, k) ==
    TryAdd("add_medication", medication, MedicationStatements(graph, medication), k)

TryAddDocument(document, k) ==
    TryAdd("add_document", document, DocumentStatements(graph, document), k)

FailInit ==
    /\ graph = EmptyGraph
    /\ nops = 0
    /\ last = [op |-> "init", n |-> 0]
    /\ store = 0
    /\ l1 = LruInit(1, 0)
    /\ l2 = SqliteInit(FALSE, 0)
    /\ now = 0
    /\ recency = <<>>
    /\ IdleRest

FailNext ==
    \/ \E profile \in {p \in Profiles : p.patient_id = "p1"} : DoAddPatient(profile)
    \/ \E encounter \in {e \in Encounters : e.encounter_id = "e1" /\ e.start_time = T1},
          k \in 0..2 : TryAddEncounter(encounter, k)
    \/ \E observation \in Observations, k \in 0..2 : TryAddObservation(observation, k)
    \/ \E medication \in {m \in Medications : m.medication_id = "m1" /\ m.status = "active"},
          k \in 0..3 : TryAddMedication(medication, k)
    \/ \E document \in {d \in Documents : d.document_id = "d1" /\ d.extracted_at = T3},
          k \in 0..2 : TryAddDocument(document, k)

SpecFail == FailInit /\ [][FailNext]_vars

-----------------------------------------------------------------------------
(* The read queries as calls that return: last is the latest read, the      *)
(* records it returned, the number of writes done when it ran, and whether  *)
(* it repeats the read before it with no write in between. A read is no     *)
(* operation counted in nops.                                               *)

\* What if: a read query wrote a node.
FetchedWriting(g) == AddPatient(g, BareProfile("p2"))

\* _fetch runs a statement made of MATCH and RETURN clauses: the graph after it.
Fetched(g) == g

ReadReturns(op, arg, records) ==
    /\ graph' = Fetched(graph)
    /\ last' = [op |-> op, arg |-> arg, records |-> records, at |-> nops,
                repeats |-> last.at = nops /\ last.op = op /\ last.arg = arg]
    /\ UNCHANGED <<l1, l2, now, recency, store, pc, loc, done, nops>>

CallGetActiveMedications(patient_id) ==
    ReadReturns("get_active_medications", <<patient_id>>,
               GetActiveMedications(graph, patient_id))

CallGetEncounterRecord(encounter_id) ==
    ReadReturns("get_encounter_record", <<encounter_id>>,
               GetEncounterRecord(graph, encounter_id))

CallGetPatientTimeline(patient_id, limit) ==
    \E rows \in GetPatientTimeline(graph, patient_id, limit) :
        ReadReturns("get_patient_timeline", <<patient_id, limit>>, RowsOfSeq(rows))

CallGetMedicationPairs(patient_id) ==
    ReadReturns("get_medication_pairs", <<patient_id>>,
               GetMedicationPairs(graph, patient_id))

ReadInit ==
    /\ graph = EmptyGraph
    /\ nops = 0
    /\ last = [op |-> "init", arg |-> <<>>, records |-> {}, at |-> None, repeats |-> FALSE]
    /\ store = 0
    /\ l1 = LruInit(1, 0)
    /\ l2 = SqliteInit(FALSE, 0)
    /\ now = 0
    /\ recency = <<>>
    /\ IdleRest

ReadNext ==
    \/ \E profile \in {p \in Profiles : p.patient_id = "p1" /\ p.name = "Ann"} :
           DoAddPatient(profile)
    \/ \E encounter \in {e \in Encounters : e.patient_id = "p1" /\ e.start_time = T1} :
           DoAddEncounter(encounter)
    \/ \E medication \in {m \in Medications : /\ m.patient_id = "p1"
                                              /\ m.medication_id \in {"m1", "m2"}
                                              /\ m.status = "active"} :
           DoAddMedication(medication)
    \/ \E document \in {d \in Documents : /\ d.patient_id = "p1"
                                          /\ d.encounter_id \in {NoId, "e1"}
                                          /\ d.extracted_at = T3} :
           DoAddDocument(document)
    \/ \E patient_id \in PatientIds : CallGetActiveMedications(patient_id)
    \/ \E encounter_id \in EncounterIds : CallGetEncounterRecord(encounter_id)
    \/ \E patient_id \in PatientIds, limit \in Limits :
           CallGetPatientTimeline(patient_id, limit)
    \/ \E patient_id \in PatientIds : CallGetMedicationPairs(patient_id)

SpecRead == ReadInit /\ [][ReadNext]_vars

-----------------------------------------------------------------------------
(* Claims about clearing and cache keys. *)

Empty(c1, c2) == c1.data = <<>> /\ c2.rows = {}

\* C21: a composite clear() leaves L1 with no entry and L2 with no row, a
\* composite get of any key at that or any later time then returns nothing,
\* and the two layers stay empty, every get returning nothing, under every
\* call that is not a set.
C21_ClearEmptiesBothLayers ==
    [][/\ last'.op = "clear" =>
              /\ Empty(l1', l2')
              /\ \A key \in Keys, t \in Later :
                     LET g == MultiLevelGet(l1', l2', key, t)
                     IN  g.ret = None /\ g.data = <<>> /\ g.rows = {}
       /\ (Empty(l1, l2) /\ last'.op /= "set") =>
              /\ Empty(l1', l2')
              /\ last'.op = "get" => last'.ret = None /\ last'.src = "miss"]_vars

C21_Witness ==
    /\ last.op = "clear"
    /\ last.dirty
    /\ l2.enabled
    /\ now > 0

\* The entries of a dict, None (no filters) holding none.
PairsOf(d) == IF d = NoFilters THEN {} ELSE {d[i] : i \in 1..Len(d)}

SameRequest(a, b) ==
    /\ a.query = b.query
    /\ PairsOf(a.filters) = PairsOf(b.filters)
    /\ PairsOf(a.extra) = PairsOf(b.extra)

\* C22: the cache key is a function of the query parameters: two searches
\* with the same query, user, limit and threshold whose filters hold the same
\* entries, and whose keyword arguments hold the same entries, in whatever
\* order they were inserted, get the same key, and no filters and an empty
\* filters dict give the same key.
C22_CacheKeyDeterministic ==
    \A t1, t2 \in Threads :
        (pc[t1] = "keyed" /\ pc[t2] = "keyed") =>
            LET a == loc[t1]
                b == loc[t2]
            IN  /\ SameRequest(a, b) => a.cache_key = b.cache_key
                /\ a.cache_key =
                       BuildCacheKey(a.query, "u1", DefaultLimit, a.filters, None, a.extra)
                /\ BuildCacheKey(a.query, "u1", DefaultLimit, NoFilters, None, a.extra)
                       = BuildCacheKey(a.query, "u1", DefaultLimit, <<>>, None, a.extra)

C22_Witness ==
    /\ pc["t1"] = "keyed" /\ pc["t2"] = "keyed"
    /\ loc["t1"].filters = <<<<"patient_id", "p1">>, <<"encounter_id", "p2">>>>
    /\ loc["t2"].filters = <<<<"encounter_id", "p2">>, <<"patient_id", "p1">>>>
    /\ loc["t1"].extra = <<<<"run_id", "a1">>, <<"agent_id", "a1">>>>
    /\ loc["t2"].extra = <<<<"agent_id", "a1">>, <<"run_id", "a1">>>>
    /\ loc["t1"].query = loc["t2"].query
    /\ loc["t1"].cache_key = loc["t2"].cache_key

\* A search without filters and one with an empty filters dict have one key.
C22_WitnessNoFilters ==
    /\ pc["t1"] = "keyed" /\ pc["t2"] = "keyed"
    /\ loc["t1"].filters = NoFilters
    /\ loc["t2"].filters = <<>>
    /\ loc["t1"].cache_key = loc["t2"].cache_key

-----------------------------------------------------------------------------
(* Claims about the read queries of the graph store. *)

\* The patients a query may name: those written and one never written.
AnyPatient == PatientIds \cup {"p9"}

\* A medication as written again with another status.
Rewritten(m, patient_id, status) ==
    [medication_id |-> m.medication_id, patient_id |-> patient_id,
     encounter_id |-> NoId, name |-> m.name, indication |-> m.indication,
     prescriber |-> m.prescriber, status |-> status,
     start_date |-> m.start_date, end_date |-> T3, created_at |-> None]

\* C23: get_active_medications(patient) returns one row for each Medication
\* node that has a TAKES_MEDICATION relationship from the patient and whose
\* status is "active", with the node's attributes, and no other row; once a
\* medication is written again with status stopped or unknown no patient's
\* result holds it, and written again as active every patient linked to it
\* gets it.
C23_ActiveMedications ==
    \A p \in AnyPatient :
        LET rows == GetActiveMedications(graph, p)
            linked(g, m) == \E r \in BagToSet(g.TAKES_MEDICATION) :
                                r.from = p /\ r.to = m.medication_id
        IN  /\ \A m \in BagToSet(graph.Medication) :
                   Cardinality({row \in rows : row.medication_id = m.medication_id})
                       = IF linked(graph, m) /\ m.status = "active" THEN 1 ELSE 0
            /\ \A row \in rows :
                   \E m \in BagToSet(graph.Medication) :
                       /\ linked(graph, m) /\ m.status = "active"
                       /\ [f \in DOMAIN m |-> row[f]] = m
            /\ \A m \in BagToSet(graph.Medication), q \in PatientIds :
                   /\ \A status \in {"stopped", "unknown"} :
                          LET g2 == AddMedication(graph, Rewritten(m, q, status))
                          IN  \A row \in GetActiveMedications(g2, p) :
                                  row.medication_id /= m.medication_id
                   /\ LET g2 == AddMedication(graph, Rewritten(m, q, "active"))
                      IN  linked(g2, m) <=>
                              \E row \in GetActiveMedications(g2, p) :
                                  /\ row.medication_id = m.medication_id
                                  /\ row.end_date = T3

\* Medication m1 of patient p1 was written as active within encounter e1 and
\* then as stopped: the patient has no active medication.
C23_Witness ==
    /\ \E r \in BagToSet(graph.HAS_MEDICATION) : r.to = "m1"
    /\ \E m \in BagToSet(graph.Medication) :
           m.medication_id = "m1" /\ m.status = "stopped"
    /\ \E r \in BagToSet(graph.TAKES_MEDICATION) : r.from = "p1" /\ r.to = "m1"
    /\ GetActiveMedications(graph, "p1") = {}

AnyEncounter == EncounterIds \cup {"e9"}

\* C24: get_encounter_record of an encounter ID that is not in the graph
\* returns the record with encounter None and no observation, medication or
\* document, and get_active_medications, get_patient_timeline and
\* get_medication_pairs of a patient ID that is not in the graph return the
\* empty list; each is a result, not a failure.
C24_NotFoundIsNotAnError ==
    /\ \A e \in AnyEncounter :
           ~HasNode(graph.Encounter, "encounter_id", e) =>
               GetEncounterRecord(graph, e) =
                   [encounter |-> NullRow, observations |-> {},
                    medications |-> {}, documents |-> {}]
    /\ \A p \in AnyPatient :
           ~HasNode(graph.Patient, "patient_id", p) =>
               /\ GetActiveMedications(graph, p) = {}
               /\ GetMedicationPairs(graph, p) = {}
               /\ \A limit \in Limits : GetPatientTimeline(graph, p, limit) = {<<>>}

\* Encounter e1 and patient p2 are not in the graph, while an observation, a
\* medication and a document that name them are.
C24_Witness ==
    /\ ~HasNode(graph.Encounter, "encounter_id", "e1")
    /\ ~HasNode(graph.Patient, "patient_id", "p2")
    /\ HasNode(graph.Patient, "patient_id", "p1")
    /\ graph.Observation /= EmptyBag
    /\ \E m \in BagToSet(graph.Medication) : m.status = "active"
    /\ graph.Document /= EmptyBag

\* C25: run side by side on the same add operations, the Kuzu store and the
\* Neo4j store hold the same nodes, attributes and relationships after every
\* step, and each of the four read queries returns the same rows from both.
C25_StoresEquivalent ==
    /\ graph.kuzu = graph.neo4j
    /\ \A p \in AnyPatient :
           /\ GetActiveMedications(graph.kuzu, p) = GetActiveMedications(graph.neo4j, p)
           /\ GetMedicationPairs(graph.kuzu, p) = GetMedicationPairs(graph.neo4j, p)
           /\ \A limit \in Limits :
                  GetPatientTimeline(graph.kuzu, p, limit)
                      = GetPatientTimeline(graph.neo4j, p, limit)
    /\ \A e \in AnyEncounter :
           GetEncounterRecord(graph.kuzu, e) = GetEncounterRecord(graph.neo4j, e)

-----------------------------------------------------------------------------
(* Claims about configuration and failures. *)

Enabled(env) == env.JKMEM_GRAPH_ENABLED \in {NoId, "1"} /\ env.JKMEM_NEO4J_MAX_POOL = NoId

\* C26: with the graph layer enabled, get_graph_store raises and returns no
\* store when the provider is neither kuzu nor neo4j, and when the provider
\* is neo4j and the URL, the username or the password is not set or empty;
\* in both cases no driver has been created.
C26_ConfigFailsFast ==
    (last.op = "get_graph_store" /\ Enabled(loc.env)) =>
        LET env == loc.env
            provider == env.JKMEM_GRAPH_PROVIDER
            missing(name) == env[name] \in {NoId, ""}
        IN  /\ provider \notin {NoId, "kuzu", "neo4j"} =>
                graph = Outcome(NoId, "RuntimeError", FALSE)
            /\ (/\ provider = "neo4j"
                /\ \/ missing("JKMEM_NEO4J_URL")
                   \/ missing("JKMEM_NEO4J_USERNAME")
                   \/ missing("JKMEM_NEO4J_PASSWORD")) =>
                graph = Outcome(NoId, "RuntimeError", FALSE)
            /\ graph.error /= "" => graph.store = NoId

\* The neo4j provider with its library, a URL and a user name, and an empty
\* password.
C26_Witness ==
    /\ last.op = "get_graph_store"
    /\ last.src = "raised"
    /\ loc.env.JKMEM_GRAPH_PROVIDER = "neo4j"
    /\ loc.env.JKMEM_GRAPH_ENABLED = "1"
    /\ loc.env.JKMEM_NEO4J_URL = "bolt://db"
    /\ loc.env.JKMEM_NEO4J_USERNAME = "neo4j"
    /\ loc.env.JKMEM_NEO4J_PASSWORD = ""
    /\ loc.env.JKMEM_NEO4J_MAX_POOL = NoId
    /\ "neo4j" \in loc.libs

\* C27: no operation turns an internal failure into a "nothing found"
\* result: a get of a key whose L2 row is not expired and holds a value that
\* cannot be decoded does not return None, the answer of a miss.
C27_NoFailureSuppressed ==
    (/\ last.op = "l2get"
     /\ \E r \in l2.rows :
            /\ r.cache_key = last.key
            /\ ~Expired(r, now)
            /\ ~IsJson(r.cache_value)) =>
        last.ret /= None

-----------------------------------------------------------------------------
(* Claims about the lifecycle of the graph. *)

\* C28: every Encounter node has exactly one incoming HAS_ENCOUNTER
\* relationship, whatever add_patient and add_encounter calls were made.
C28_EncounterHasOnePatient ==
    \A e \in BagToSet(graph.Encounter) :
        Copies(graph.HAS_ENCOUNTER, RelsTo(graph.HAS_ENCOUNTER, e.encounter_id)) = 1

NodeIds(g, nt) == {n[nt[2]] : n \in BagToSet(g[nt[1]])}
Edges(g, rt) == {<<r.from, r.to>> : r \in BagToSet(g[rt[1]])}

\* C29: no add operation and no read query deletes: over every step the
\* identifiers of the nodes of each table and the relationships of each
\* relationship table (as pairs of ends) are kept and no table loses a
\* node; so a patient that was written exists ever after.
C29_NeverDeletes ==
    [][/\ \A nt \in NodeTables : NodeIds(graph, nt) \subseteq NodeIds(graph', nt)
       /\ \A rt \in RelTables : Edges(graph, rt) \subseteq Edges(graph', rt)
       /\ \A nt \in NodeTables :
              BagCardinality(graph[nt[1]]) <= BagCardinality(graph'[nt[1]])]_vars

\* An encounter was written for one patient and then for another, and a
\* patient was written twice: the earlier relationship is still there.
C29_Witness ==
    /\ nops = MaxOps
    /\ \E e \in BagToSet(graph.Encounter) :
           Cardinality(RelsTo(graph.HAS_ENCOUNTER, e.encounter_id)) = 2
    /\ Cardinality(BagToSet(graph.Patient)) = 2

\* C30: constructing a store on a database that has the schema runs the
\* schema statements again without an error and leaves every node and every
\* relationship as it was; on a database that has none or part of the tables
\* it creates the missing ones and keeps the others.
C30_SchemaInitIdempotent ==
    [][(last'.op = "open" /\ nops' = nops) =>
          /\ last'.src = "ok"
          /\ DOMAIN graph' = AllTables
          /\ \A t \in DOMAIN graph : graph'[t] = graph[t]
          /\ \A t \in AllTables \ DOMAIN graph : graph'[t] = EmptyBag
          /\ DOMAIN graph = AllTables => graph' = graph
          /\ InitSchema(graph') = [db |-> graph', error |-> ""]]_vars

\* A store was opened on a database that held nodes and relationships.
C30_Witness ==
    /\ last.op = "open"
    /\ last.src = "ok"
    /\ last.ret = Size(graph)
    /\ graph.HAS_ENCOUNTER /= EmptyBag
    /\ graph.TAKES_MEDICATION /= EmptyBag

-----------------------------------------------------------------------------
(* Claims about the memory backend and the agent. *)

\* C31: a search with filters returns only entries of the given user whose
\* stored metadata equals the filter value for every filter key, and it
\* returns the matching entries that pass the filters (the first `limit` of
\* them): a search no entry passes returns the empty list.
C31_SearchHonoursFilters ==
    (last.op = "search" /\ DOMAIN last.filters /= {}) =>
        /\ \A i \in 1..Len(last.results) :
               /\ last.results[i].user_id = last.user_id
               /\ Passes(last.results[i], last.filters)
        /\ (\E i \in 1..Len(store) :
                /\ store[i].user_id = last.user_id
                /\ Passes(store[i], last.filters)
                /\ Contains(Lower(store[i].memory), Lower(last.query)))
               => last.results /= <<>>

(* A Python str as a value that can stand where a dict may stand. *)
Str(s) == [str |-> s]

(* C32: the value MemoryAgent.respond returns equals the reply text the LLM
   function returned: with an LLM function that answers "ok", respond
   returns "ok". *)
C32_RespondReturnsReply ==
    last.op = "respond" => last.ret = Str(last.response)

\* A search of the entries by user_id for text finds something, and a search
\* by any other user returns entries of that user only.
Findable(entries, text, user_id) ==
    \A limit \in {1, DefaultLimit} :
        /\ InMemorySearch(entries, text, user_id, limit, NoDict) /= <<>>
        /\ \A other \in UserIds \ {user_id} :
               LET results == InMemorySearch(entries, text, other, limit, NoDict)
               IN  \A i \in 1..Len(results) : results[i].user_id = other

(* C33: MemoryAgent.respond stores the assistant's reply under the caller's
   user_id, and stores it only when the reply is not empty; nothing is ever
   taken out of the backend, so from then on a search by that user for the
   reply text returns at least one result, and a search by another user
   returns none of that user's entries. *)
C33_ReplyIsStoredForUser ==
    [][ /\ Len(store') >= Len(store)
        /\ SubSeq(store', 1, Len(store)) = store
        /\ \A i \in 1..Len(store') : Findable(store', store'[i].memory, store'[i].user_id)
        /\ last'.op = "respond" =>
               IF last'.response = ""
               THEN store' = store
               ELSE /\ Len(store') = Len(store) + 1
                    /\ store'[Len(store')].user_id = last'.user_id
                    /\ store'[Len(store')].memory = last'.response
      ]_vars

\* respond has stored a reply for one user while the backend holds an entry
\* of the other user.
C33_Witness ==
    /\ last.op = "respond"
    /\ last.response = "ok"
    /\ store[Len(store)].user_id = last.user_id
    /\ store[Len(store)].memory = "ok"
    /\ \E i \in 1..Len(store) : store[i].user_id /= last.user_id

(* Claims about the cache layers under concurrent calls and over time. *)

(* C34: when a composite clear runs beside composite gets, then once clear
   has returned and no set has written a layer since, neither L1 nor L2
   holds an entry: a get that read its value from L2 before the clear does
   not put that value back into L1 after it. *)
C34_ClearLeavesNothingBehind ==
    last.op = "clear" => (l1.data = <<>> /\ l2.rows = {})

(* C35: when two threads call composite set on one key with different
   values, then after both calls have returned L1 and L2 hold the same
   value for that key. *)
C35_LayersAgreeAfterSets ==
    (/\ l2.enabled
     /\ \A t \in Threads : pc[t] = "idle" /\ loc[t].op = "set"
     /\ loc["t1"].key = loc["t2"].key
     /\ loc["t1"].value /= loc["t2"].value)
        => LruGet(l1, loc["t1"].key, now).ret = SqliteGet(l2, loc["t1"].key, now).ret

(* C36: Mem0Backend.search with the cache is read-through. When the cache
   holds a live entry for the key of the call, the search returns it and
   does nothing but the cache's get; otherwise it returns the result of the
   underlying search and leaves it in the cache under the key, where a get
   finds it. With one caller at a time the value returned is always what
   the underlying store returns for the query now: no write lies between
   the underlying call that produced it and the search. *)
C36_SearchIsReadThrough ==
    [][last'.op = "search" =>
        \E query \in Queries :
            LET key == KeyOf(query)
                g == MultiLevelGet(l1, l2, key, now)
            IN  /\ last'.key = key
                /\ last'.ret = MemorySearch(store, query)
                /\ store' = store
                /\ IF g.ret /= None
                   THEN /\ last'.src = "cache"
                        /\ last'.ret = g.ret
                        /\ l1'.data = g.data
                        /\ l2'.rows = g.rows
                   ELSE /\ last'.src = "store"
                        /\ MultiLevelGet(l1', l2', key, now').ret = last'.ret]_vars

\* A search is served from the cache after the store was written, the cache
\* cleared and the result fetched again.
C36_Witness ==
    /\ last.op = "search"
    /\ last.src = "cache"
    /\ store >= 1
    /\ last.ret = store

(* C37: a get served from L2 writes the value into L1 with the expiry
   instant now + the L1 TTL, whatever lifetime the L2 row has left, and a
   get served from L1 leaves the entry's expiry instant as it was. So a get
   returns for a key only the value of its latest set, and with that set at
   time t only at times before t + the L2 TTL + the L1 TTL. *)
C37_PromotionRestartsL1Ttl ==
    [][last'.op = "get" =>
        LET key == last'.key
        IN  /\ last'.src = "l2" =>
                   /\ key \in KeysIn(l1'.data)
                   /\ EntryOf(l1'.data, key) =
                          [key |-> key, value |-> last'.ret,
                           expires_at |-> now + l1.ttl_seconds]
            /\ last'.src = "l1" =>
                   EntryOf(l1'.data, key).expires_at = EntryOf(l1.data, key).expires_at
            /\ last'.ret /= None =>
                   /\ last'.ret = store[key].value
                   /\ now < store[key].at + l2.ttl_seconds + l1.ttl_seconds]_vars

\* A get returns a value later than the L2 TTL after its set, from an L1
\* entry that a promotion wrote.
C37_Witness ==
    /\ last.op = "get"
    /\ last.ret /= None
    /\ now > store[last.key].at + l2.ttl_seconds
    /\ EntryOf(l1.data, last.key).expires_at > store[last.key].at + l1.ttl_seconds

(* Claims about the consultation service and the graph store's statements. *)

(* C38: log_consultation upserts the Patient node from a profile that
   carries only the patient_id and then upserts the Encounter: afterwards
   the patient has one node whose name, date_of_birth and sex are null,
   whatever they were before, every other patient's nodes are as they were,
   and the encounter has its node and its HAS_ENCOUNTER relationship from
   the patient, also when the patient was not in the graph before. *)
C38_LogConsultationUpsertsPatient ==
    [][(last'.op = "log_consultation" /\ last'.n = nops' /\ nops' = nops + 1) =>
        LET p == last'.patient_id
            e == last'.encounter
        IN  /\ graph' = AddEncounter(AddPatient(graph, BareProfile(p)), e)
            /\ NodesWith(graph'.Patient, "patient_id", p) = {BareProfile(p)}
            /\ Copies(graph'.Patient, {BareProfile(p)}) = Max(1, Copies(graph.Patient, last'.found))
            /\ \A n \in BagToSet(graph.Patient) \cup BagToSet(graph'.Patient) :
                   n.patient_id /= p =>
                       Copies(graph'.Patient, {n}) = Copies(graph.Patient, {n})
            /\ NodesWith(graph'.Encounter, "encounter_id", e.encounter_id)
                   = {EncounterNode(e)}
            /\ Between(graph'.HAS_ENCOUNTER, p, e.encounter_id) /= {}]_vars

\* log_consultation has run for a patient whose node carried a name, a date
\* of birth and a sex.
C38_Witness ==
    /\ last.op = "log_consultation"
    /\ last.n = nops
    /\ \E n \in last.found : n.name = "Ann" /\ n.date_of_birth = "1980-01-01" /\ n.sex = "F"
    /\ NodesWith(graph.Patient, "patient_id", last.patient_id) = {BareProfile(last.patient_id)}

StatementsOf(op, g, arg) ==
    CASE op = "add_encounter" -> EncounterStatements(g, arg)
      [] op = "add_observation" -> ObservationStatements(g, arg)
      [] op = "add_medication" -> MedicationStatements(g, arg)
      [] op = "add_document" -> DocumentStatements(g, arg)

WholeAdd(op, g, arg) ==
    CASE op = "add_encounter" -> AddEncounter(g, arg)
      [] op = "add_observation" -> AddObservation(g, arg)
      [] op = "add_medication" -> AddMedication(g, arg)
      [] op = "add_document" -> AddDocument(g, arg)

\* The node table of an add, its key and the node the add writes.
NodeOfAdd(op, arg) ==
    CASE op = "add_encounter" -> <<"Encounter", "encounter_id", EncounterNode(arg)>>
      [] op = "add_observation" -> <<"Observation", "observation_id", ObservationNode(arg)>>
      [] op = "add_medication" -> <<"Medication", "medication_id", MedicationNode(arg)>>
      [] op = "add_document" -> <<"Document", "document_id", DocumentNode(arg)>>

(* C39: add_encounter, add_observation, add_medication and add_document run
   their node upsert and their relationship upserts as separate statements,
   each once. When all are executed the graph is that of the whole add.
   When a statement raises, the call raises, and the graph keeps what the
   statements before it did: after the node upsert the node is there once
   with the new attributes, every other node table is as before, the
   relationships of the statements not executed are as before, and the edge
   of an executed relationship statement is there. *)
C39_AddsAreNotAtomic ==
    [][(last'.n = nops' /\ nops' = nops + 1) =>
        LET op == last'.op
            arg == last'.arg
            k == last'.executed
            statements == StatementsOf(op, graph, arg)
            whole == WholeAdd(op, graph, arg)
            t == NodeOfAdd(op, arg)
        IN  /\ statements[Len(statements)] = whole
            /\ last'.raised <=> k < Len(statements)
            /\ ~last'.raised => graph' = whole
            /\ (last'.raised /\ k = 0) => graph' = graph
            /\ (last'.raised /\ k >= 1) =>
                   /\ NodesWith(graph'[t[1]], t[2], t[3][t[2]]) = {t[3]}
                   /\ Copies(graph'[t[1]], {t[3]}) =
                          Max(1, Copies(graph[t[1]], NodesWith(graph[t[1]], t[2], t[3][t[2]])))
                   /\ \A nt \in NodeTables : nt[1] /= t[1] => graph'[nt[1]] = graph[nt[1]]
                   /\ k = 1 => \A rt \in RelTables : graph'[rt[1]] = graph[rt[1]]
                   /\ k = 2 => /\ graph'.HAS_MEDICATION = whole.HAS_MEDICATION
                               /\ graph'.TAKES_MEDICATION = graph.TAKES_MEDICATION]_vars

\* add_medication raised in its third statement: the Medication node and its
\* HAS_MEDICATION edge from the encounter are in the graph, no TAKES_MEDICATION
\* edge is.
C39_Witness ==
    /\ last.n = nops
    /\ last.op = "add_medication"
    /\ last.raised
    /\ last.executed = 2
    /\ Between(graph.HAS_MEDICATION, "e1", "m1") /= {}
    /\ RelsTo(graph.TAKES_MEDICATION, "m1") = {}
    /\ HasNode(graph.Patient, "patient_id", last.arg.patient_id)

\* The document rows of a patient's timeline before ORDER BY and LIMIT.
DocumentEvents(g, patient_id) ==
    Events(g, patient_id, "HAS_DOCUMENT_DIRECT", "Document", "document_id",
           "document", "extracted_at")

====
